---------------------------- MODULE Spec2Model ----------------------------
(***************************************************************************)
(* Trend detection and goal synthesis core of the product-insight agent.   *)
(*                                                                         *)
(*   - ReportingService.detect_significant_trends and its four detectors   *)
(*     (src/reporting/report_service.py)                                   *)
(*   - GoalGenerationService: relevance filter, priority calculator,       *)
(*     LLM result validation, single and batch goal generation             *)
(*     (src/insights/goal_service.py)                                      *)
(*   - the pydantic models TrendAnalysis and GoalProposal (src/models.py)  *)
(*                                                                         *)
(* Floating point quantities (severity, confidence, ratios) are modelled   *)
(* as exact rationals [n |-> numerator, d |-> denominator], d > 0.         *)
(* Strings whose content the code never inspects are modelled by their     *)
(* length.                                                                 *)
(***************************************************************************)
EXTENDS Integers, Sequences, FiniteSets, TLC

VARIABLES
    \* ---- GoalGenerationService._calculate_priority call ----
    p_trend,        \* <<t>>: the trend passed to the last call (<<>> before any)
    p_result,       \* <<r>>: the integer it returned (<<>> before any)
    \* ---- GoalGenerationService._filter_relevant_feedback call ----
    f_trend,        \* <<t>>: the trend argument (<<>> before the call)
    f_feedback,     \* supporting_feedback: the candidate pool, a list of FeedbackItem
    f_analyses,     \* supporting_analyses: a list of InsightAnalysis
    f_result,       \* <<list>>: the returned list (<<>> before the call)
    f_pool,         \* the caller's pool list as the calls left it
    f_again,        \* <<list>>: what a second call on f_pool returned
    \* ---- GoalGenerationService.generate_goals_from_trends call ----
    g_pc,           \* "idle", "loop" (line 57), "returned" (line 71), "raised"
    g_trends,       \* the trends argument
    g_feedback,     \* the supporting_feedback argument
    g_analyses,     \* the supporting_analyses argument
    g_i,            \* index of the trend the for loop takes next
    g_goals,        \* the goals list
    g_results,      \* how generate_single_goal ended for each trend taken so far
    g_calls,        \* the calls of the generation collaborator: trend index, answer
    g_next_id,      \* the next fresh proposal id (uuid4)
    \* ---- ReportingService.detect_significant_trends call ----
    d_pc,           \* "idle", "returned", "raised" (an exception left the call)
    d_summaries,    \* the summaries argument, oldest day first
    d_feedback,     \* the feedback_items argument
    d_analyses,     \* the analyses argument
    d_sentiment,    \* what _detect_sentiment_shifts returned
    d_topic,        \* what _detect_topic_clusters returned
    d_volume,       \* what _detect_volume_spikes returned
    d_recurring,    \* what _detect_recurring_issues returned
    d_result,       \* the returned list of significant trends
    \* ---- ProductInsightAgent.generate_goals_from_trends call ----
    a_pc,           \* "idle", "collect" (275), "fetch" (290), "detect" (302),
                    \* "generate" (313), "store" (317), "returned"
    a_days,         \* the days argument
    a_getter,       \* what get_daily_summary_by_date is on the storage object
    a_stored_summaries, \* the daily summaries of the store, by age in days
    a_stored_feedback,  \* the feedback records of the store
    a_stored_analyses,  \* the analyses of the store
    a_summaries,    \* the local summaries
    a_feedback,     \* the local feedback_items
    a_analyses,     \* the local analyses
    a_trends,       \* the local trends
    a_calls,        \* the trends the generation collaborator was called for
    a_goals,        \* the local goals
    a_table,        \* the goal_proposals table of the store
    a_success,      \* <<b>>: what store_goal_proposals returned (<<>>: not called)
    a_error,        \* <<e>>: the exception caught at line 327 (<<>>: none)
    a_result,       \* <<list>>: the returned list (<<>> before the return)
    a_updates,      \* the ids update_goal_proposal_status was called for
    \* the goal_proposals repository on its own
    s_pc,           \* "idle", "stored"
    s_goals,        \* the proposals the goal service produced
    s_table,        \* the goal_proposals table
    s_success,      \* <<b>>: what store_goal_proposals returned
    s_read          \* <<call>>: the read call made and how it ended

priority_vars == <<p_trend, p_result>>
filter_vars   == <<f_trend, f_feedback, f_analyses, f_result, f_pool, f_again>>
goal_vars     == <<g_pc, g_trends, g_feedback, g_analyses, g_i, g_goals, g_results,
                   g_calls, g_next_id>>
detect_vars   == <<d_pc, d_summaries, d_feedback, d_analyses, d_sentiment, d_topic,
                   d_volume, d_recurring, d_result>>
agent_vars    == <<a_pc, a_days, a_getter, a_stored_summaries, a_stored_feedback,
                   a_stored_analyses, a_summaries, a_feedback, a_analyses, a_trends,
                   a_calls, a_goals, a_table, a_success, a_error, a_result, a_updates>>
storage_vars  == <<s_pc, s_goals, s_table, s_success, s_read>>
vars == <<priority_vars, filter_vars, goal_vars, detect_vars, agent_vars, storage_vars>>

\* Optional values are sequences of length <= 1: <<>> is Python's None
None == <<>>
Some(x) == <<x>>

(***************************************************************************)
(* Enumerations of src/models.py                                           *)
(***************************************************************************)
POSITIVE == "positive"
NEGATIVE == "negative"
NEUTRAL  == "neutral"
SentimentType == {POSITIVE, NEGATIVE, NEUTRAL}

BUG             == "bug"
FEATURE_REQUEST == "feature-request"
UI_FEEDBACK     == "ui-feedback"
PERFORMANCE     == "performance"
DOCUMENTATION   == "documentation"
SUPPORT         == "support"
GENERAL         == "general"
TopicTag == {BUG, FEATURE_REQUEST, UI_FEEDBACK, PERFORMANCE, DOCUMENTATION,
             SUPPORT, GENERAL}

SENTIMENT_SHIFT == "sentiment_shift"
TOPIC_CLUSTER   == "topic_cluster"
VOLUME_SPIKE    == "volume_spike"
RECURRING_ISSUE == "recurring_issue"
TrendType == {SENTIMENT_SHIFT, TOPIC_CLUSTER, VOLUME_SPIKE, RECURRING_ISSUE}

PENDING == "pending"
GoalProposalStatus == {PENDING, "approved", "rejected", "in_progress", "completed"}

(***************************************************************************)
(* Exact rational arithmetic standing for Python floats                    *)
(***************************************************************************)
RECURSIVE Gcd(_, _)
Gcd(a, b) == IF b = 0 THEN a ELSE Gcd(b, a % b)

Abs(x) == IF x < 0 THEN -x ELSE x

\* the rational n/d in lowest terms (d > 0)
Rat(n, d) ==
    LET g == Gcd(Abs(n), d)
    IN  IF n = 0 THEN [n |-> 0, d |-> 1] ELSE [n |-> n \div g, d |-> d \div g]

RGe(a, b) == a.n * b.d >= b.n * a.d
RGt(a, b) == a.n * b.d >  b.n * a.d
REq(a, b) == a.n * b.d =  b.n * a.d
RAdd(a, b) == Rat(a.n * b.d + b.n * a.d, a.d * b.d)
RSub(a, b) == Rat(a.n * b.d - b.n * a.d, a.d * b.d)
RMul(a, b) == Rat(a.n * b.n, a.d * b.d)
RMin(a, b) == IF RGe(b, a) THEN a ELSE b

Min(a, b) == IF a <= b THEN a ELSE b
Max(a, b) == IF a >= b THEN a ELSE b

(***************************************************************************)
(* TrendAnalysis (src/models.py).  key_indicators are formatted text that  *)
(* no operation reads back; they are not modelled.                         *)
(***************************************************************************)
TrendAnalysis(tt, conf, cnt, topics, dist, period, sev) ==
    [trend_type              |-> tt,
     confidence              |-> conf,
     affected_feedback_count |-> cnt,
     primary_topics          |-> topics,
     sentiment_distribution  |-> dist,
     time_period             |-> period,
     severity_score          |-> sev]

(***************************************************************************)
(* GoalGenerationService._calculate_priority                               *)
(***************************************************************************)
\* any(topic in high_priority_topics for topic in trend.primary_topics)
HasHighPriorityTopic(trend) ==
    \E k \in 1..Len(trend.primary_topics) :
        trend.primary_topics[k] \in {BUG, PERFORMANCE}

\* variant without the clamp after each adjustment: the adjustments are
\* summed and the sum is clamped once at the end
_calculate_priority_sum(trend) ==
    LET sev  == trend.severity_score
        base == IF RGe(sev, Rat(9, 10)) THEN 5
                ELSE IF RGe(sev, Rat(8, 10)) THEN 4
                ELSE IF RGe(sev, Rat(6, 10)) THEN 3
                ELSE IF RGe(sev, Rat(4, 10)) THEN 2
                ELSE 1
        a1 == IF trend.trend_type \in {SENTIMENT_SHIFT, RECURRING_ISSUE} THEN 1 ELSE 0
        a2 == IF trend.affected_feedback_count >= 20 THEN 1
              ELSE IF trend.affected_feedback_count <= 3 THEN -1 ELSE 0
        a3 == IF HasHighPriorityTopic(trend) THEN 1 ELSE 0
    IN  Max(1, Min(5, base + a1 + a2 + a3))

\* variant that returns the running value without any clamping
_calculate_priority_unclamped(trend) ==
    LET sev  == trend.severity_score
        base == IF RGe(sev, Rat(9, 10)) THEN 5
                ELSE IF RGe(sev, Rat(8, 10)) THEN 4
                ELSE IF RGe(sev, Rat(6, 10)) THEN 3
                ELSE IF RGe(sev, Rat(4, 10)) THEN 2
                ELSE 1
        a1 == IF trend.trend_type \in {SENTIMENT_SHIFT, RECURRING_ISSUE} THEN 1 ELSE 0
        a2 == IF trend.affected_feedback_count >= 20 THEN 1
              ELSE IF trend.affected_feedback_count <= 3 THEN -1 ELSE 0
        a3 == IF HasHighPriorityTopic(trend) THEN 1 ELSE 0
    IN  base + a1 + a2 + a3

\* variant without the adjustment for the trend type
_calculate_priority_no_type(trend) ==
    LET sev == trend.severity_score
        p0 == IF RGe(sev, Rat(9, 10)) THEN 5
              ELSE IF RGe(sev, Rat(8, 10)) THEN 4
              ELSE IF RGe(sev, Rat(6, 10)) THEN 3
              ELSE IF RGe(sev, Rat(4, 10)) THEN 2
              ELSE 1
        p2 == IF trend.affected_feedback_count >= 20 THEN Min(5, p0 + 1)
              ELSE IF trend.affected_feedback_count <= 3 THEN Max(1, p0 - 1)
              ELSE p0
        p3 == IF HasHighPriorityTopic(trend) THEN Min(5, p2 + 1) ELSE p2
    IN  Max(1, Min(5, p3))

_calculate_priority(trend) ==
    LET sev == trend.severity_score
        \* lines 282-291: severity bands
        p0 == IF RGe(sev, Rat(9, 10)) THEN 5
              ELSE IF RGe(sev, Rat(8, 10)) THEN 4
              ELSE IF RGe(sev, Rat(6, 10)) THEN 3
              ELSE IF RGe(sev, Rat(4, 10)) THEN 2
              ELSE 1
        \* lines 294-300: trend type
        p1 == IF trend.trend_type = SENTIMENT_SHIFT THEN Min(5, p0 + 1)
              ELSE IF trend.trend_type = RECURRING_ISSUE THEN Min(5, p0 + 1)
              ELSE IF trend.trend_type = VOLUME_SPIKE THEN Max(1, Min(5, p0))
              ELSE p0
        \* lines 303-306: affected feedback count
        p2 == IF trend.affected_feedback_count >= 20 THEN Min(5, p1 + 1)
              ELSE IF trend.affected_feedback_count <= 3 THEN Max(1, p1 - 1)
              ELSE p1
        \* lines 309-311: high priority topics
        p3 == IF HasHighPriorityTopic(trend) THEN Min(5, p2 + 1) ELSE p2
    IN  Max(1, Min(5, p3))

(***************************************************************************)
(* FeedbackItem and InsightAnalysis (src/models.py).  Of a feedback item   *)
(* the core reads the id and the timestamp; of an analysis the feedback    *)
(* id, the sentiment and the topic list.                                   *)
(***************************************************************************)
FeedbackItem(id, ts) == [id |-> id, timestamp |-> ts]

InsightAnalysis(fid, sentiment, topics) ==
    [feedback_id |-> fid, sentiment |-> sentiment, topics |-> topics]

(***************************************************************************)
(* GoalGenerationService._filter_relevant_feedback                         *)
(***************************************************************************)
MAX_CONTEXT_ITEMS == 10     \* relevant_items[:10]

\* analysis_map.get(item.id): the dict comprehension keeps the last
\* analysis of a feedback id; None when the id has no analysis
analysis_map_get(supporting_analyses, id) ==
    LET ks == {k \in 1..Len(supporting_analyses) : supporting_analyses[k].feedback_id = id}
    IN  IF ks = {} THEN None
        ELSE Some(supporting_analyses[CHOOSE k \in ks : \A j \in ks : j <= k])

\* variant that forgets the volume-spike clause
is_relevant_no_volume(trend, analysis) ==
    \/ \E k \in 1..Len(trend.primary_topics) :
          \E j \in 1..Len(analysis.topics) : analysis.topics[j] = trend.primary_topics[k]
    \/ trend.trend_type = SENTIMENT_SHIFT /\ analysis.sentiment = NEGATIVE

\* variant that forgets the sentiment-shift clause
is_relevant_topics_only(trend, analysis) ==
    \/ \E k \in 1..Len(trend.primary_topics) :
          \E j \in 1..Len(analysis.topics) : analysis.topics[j] = trend.primary_topics[k]
    \/ trend.trend_type = VOLUME_SPIKE

\* lines 149-165: the value of is_relevant after the three checks
is_relevant(trend, analysis) ==
    \/ \E k \in 1..Len(trend.primary_topics) :
          \E j \in 1..Len(analysis.topics) : analysis.topics[j] = trend.primary_topics[k]
    \/ trend.trend_type = SENTIMENT_SHIFT /\ analysis.sentiment = NEGATIVE
    \/ trend.trend_type = VOLUME_SPIKE

\* lines 143-168: the loop over supporting_feedback, in pool order
RECURSIVE relevant_items(_, _, _)
relevant_items(trend, supporting_feedback, supporting_analyses) ==
    IF supporting_feedback = <<>> THEN <<>>
    ELSE LET n        == Len(supporting_feedback)
             item     == supporting_feedback[n]
             before   == relevant_items(trend, SubSeq(supporting_feedback, 1, n - 1),
                                        supporting_analyses)
             analysis == analysis_map_get(supporting_analyses, item.id)
         IN  IF analysis = None THEN before
             ELSE IF is_relevant(trend, analysis[1]) THEN Append(before, item)
             ELSE before

\* list.insert position of x in a list sorted by timestamp, newest first:
\* after every element whose timestamp is >= x's (stability)
InsertByTimestampDesc(sorted, x) ==
    LET later == {k \in 1..Len(sorted) : sorted[k].timestamp >= x.timestamp}
        pos   == Cardinality(later)
    IN  SubSeq(sorted, 1, pos) \o <<x>> \o SubSeq(sorted, pos + 1, Len(sorted))

\* line 171: relevant_items.sort(key=lambda x: x.timestamp, reverse=True);
\* Python's sort is stable, also with reverse=True
RECURSIVE sort_by_timestamp_desc(_)
sort_by_timestamp_desc(items) ==
    IF items = <<>> THEN <<>>
    ELSE LET n == Len(items)
         IN  InsertByTimestampDesc(sort_by_timestamp_desc(SubSeq(items, 1, n - 1)), items[n])

\* variant that sorts the caller's list in place
supporting_feedback_after_sorted(supporting_feedback) ==
    sort_by_timestamp_desc(supporting_feedback)

\* the caller's supporting_feedback list after the call: the loop appends to
\* the fresh list relevant_items (line 136) and the sort of line 171 works on
\* that list, so the argument keeps its content and order
supporting_feedback_after(supporting_feedback) == supporting_feedback

\* variant that truncates before sorting
_filter_relevant_feedback_cut_first(trend, supporting_feedback, supporting_analyses) ==
    LET found == relevant_items(trend, supporting_feedback, supporting_analyses)
    IN  sort_by_timestamp_desc(SubSeq(found, 1, Min(MAX_CONTEXT_ITEMS, Len(found))))

_filter_relevant_feedback(trend, supporting_feedback, supporting_analyses) ==
    LET sorted == sort_by_timestamp_desc(
                      relevant_items(trend, supporting_feedback, supporting_analyses))
    IN  SubSeq(sorted, 1, Min(MAX_CONTEXT_ITEMS, Len(sorted)))

(***************************************************************************)
(* Values of the JSON document the generation collaborator returns.  A     *)
(* string is modelled by its length, a list by its length and whether all  *)
(* its elements are strings, a number by its value.                        *)
(***************************************************************************)
JAbsent       == [t |-> "absent", len |-> 0, strs |-> FALSE]  \* key not in the object
JNull         == [t |-> "null",   len |-> 0, strs |-> FALSE]
JStr(n)       == [t |-> "str",    len |-> n, strs |-> FALSE]
JStrList(n)   == [t |-> "list",   len |-> n, strs |-> TRUE]
JNum(v)       == [t |-> "num",    len |-> v, strs |-> FALSE]

\* outcome of llm_service._call_llm(prompt)
LLMRaises      == [kind |-> "raise", title |-> JAbsent, description |-> JAbsent,
                   tags |-> JAbsent, estimated_effort |-> JAbsent, potential_impact |-> JAbsent]
LLMNotJson     == [kind |-> "not_json", title |-> JAbsent, description |-> JAbsent,
                   tags |-> JAbsent, estimated_effort |-> JAbsent, potential_impact |-> JAbsent]
LLMJsonArray   == [kind |-> "json_array", title |-> JAbsent, description |-> JAbsent,
                   tags |-> JAbsent, estimated_effort |-> JAbsent, potential_impact |-> JAbsent]
LLMObject(title, description, tags, effort, impact) ==
    [kind |-> "json_object", title |-> title, description |-> description,
     tags |-> tags, estimated_effort |-> effort, potential_impact |-> impact]

\* dict.get(key): None for a missing key and for a JSON null
\* Python truth value of a JSON value (`not x` is its negation)
Truthy(v) ==
    CASE v.t = "absent" -> FALSE
      [] v.t = "null"   -> FALSE
      [] v.t = "str"    -> v.len > 0
      [] v.t = "list"   -> v.len > 0
      [] v.t = "num"    -> v.len # 0

\* len(x) is defined for strings and lists; TypeError otherwise
HasLen(v) == v.t \in {"str", "list"}

(***************************************************************************)
(* GoalGenerationService._generate_goal_with_llm: the validated goal_data  *)
(* dict, or None.  Every exception of the try block is caught (227-232).   *)
(***************************************************************************)
MIN_TITLE_LENGTH       == 10
MAX_TITLE_LENGTH       == 200
MIN_DESCRIPTION_LENGTH == 50

\* variant whose lower title bound is exclusive (len <= 10 rejected)
_generate_goal_with_llm_exclusive(response) ==
    IF response.kind # "json_object" THEN None
    ELSE IF ~Truthy(response.title) \/ ~Truthy(response.description) THEN None
    ELSE IF ~HasLen(response.title) THEN None
    ELSE IF response.title.len <= MIN_TITLE_LENGTH \/ response.title.len > MAX_TITLE_LENGTH
         THEN None
    ELSE IF ~HasLen(response.description) THEN None
    ELSE IF response.description.len < MIN_DESCRIPTION_LENGTH THEN None
    ELSE Some(response)

\* variant without the length validation of lines 214-223
_generate_goal_with_llm_unchecked(response) ==
    IF response.kind # "json_object" THEN None
    ELSE IF ~Truthy(response.title) \/ ~Truthy(response.description) THEN None
    ELSE Some(response)

_generate_goal_with_llm(response) ==
    \* 206: _call_llm raised -> except Exception
    IF response.kind = "raise" THEN None
    \* 207: json.loads raised JSONDecodeError
    ELSE IF response.kind = "not_json" THEN None
    \* 210: goal_data.get on a value that is not a dict -> AttributeError
    ELSE IF response.kind # "json_object" THEN None
    \* 210-212: required fields
    ELSE IF ~Truthy(response.title) \/ ~Truthy(response.description) THEN None
    \* 215: len() of a number raises TypeError -> except Exception
    ELSE IF ~HasLen(response.title) THEN None
    ELSE IF response.title.len < MIN_TITLE_LENGTH \/ response.title.len > MAX_TITLE_LENGTH
         THEN None
    \* 219-223
    ELSE IF ~HasLen(response.description) THEN None
    ELSE IF response.description.len < MIN_DESCRIPTION_LENGTH THEN None
    ELSE Some(response)

(***************************************************************************)
(* GoalProposal (src/models.py): pydantic validates the fields at          *)
(* construction and raises ValidationError when one fails.                 *)
(***************************************************************************)
\* title: str = Field(..., min_length=10, max_length=200)
ValidTitle(v) == v.t = "str" /\ v.len >= 10 /\ v.len <= 200
\* description: str = Field(..., min_length=50)
ValidDescription(v) == v.t = "str" /\ v.len >= 50
\* tags: List[str]; goal_data.get("tags", []) is [] only for a missing key
ValidTags(v) == v.t = "absent" \/ (v.t = "list" /\ v.strs)
\* estimated_effort, potential_impact: Optional[str]
ValidOptionalStr(v) == v.t \in {"absent", "null", "str"}

GoalProposalValid(goal_data, priority) ==
    /\ ValidTitle(goal_data.title)
    /\ ValidDescription(goal_data.description)
    /\ priority \in 1..5
    /\ ValidTags(goal_data.tags)
    /\ ValidOptionalStr(goal_data.estimated_effort)
    /\ ValidOptionalStr(goal_data.potential_impact)

\* variant in which a new proposal starts approved
GoalProposal_status_default_approved == "approved"

\* models.py line 150: status = Field(default=GoalProposalStatus.PENDING);
\* the constructor call of generate_single_goal passes the same value
\* (goal_service.py line 117)
GoalProposal_status_default == PENDING

\* the constructed proposal; created_at is not modelled
GoalProposal(id, goal_data, priority, trend, supporting_feedback_ids) ==
    [id                      |-> id,
     title                   |-> goal_data.title,
     description             |-> goal_data.description,
     status                  |-> GoalProposal_status_default,
     priority                |-> priority,
     source_trend            |-> trend,
     supporting_feedback_ids |-> supporting_feedback_ids,
     created_by              |-> "product_insight_agent",
     tags                    |-> IF goal_data.tags.t = "absent" THEN JStrList(0)
                                 ELSE goal_data.tags,
     estimated_effort        |-> IF goal_data.estimated_effort.t = "absent" THEN JNull
                                 ELSE goal_data.estimated_effort,
     potential_impact        |-> IF goal_data.potential_impact.t = "absent" THEN JNull
                                 ELSE goal_data.potential_impact,
     \* title + " - " + description[:100] + "..."
     summary_text            |-> JStr(goal_data.title.len + 3
                                      + Min(100, goal_data.description.len) + 3)]

(***************************************************************************)
(* GoalGenerationService.generate_single_goal.  `response` is what the     *)
(* generation collaborator answers if it is called; `id` the uuid4 of a    *)
(* constructed proposal.  The result tells how the call ended ("goal",     *)
(* "none" for a returned None, "raise" for a propagated exception) and     *)
(* whether the collaborator was called.                                    *)
(***************************************************************************)
SingleGoalResult(outcome, goal, called, relevant) ==
    [outcome |-> outcome, goal |-> goal, llm_called |-> called,
     relevant_ids |-> [k \in 1..Len(relevant) |-> relevant[k].id]]

\* variant that lists the ids oldest first
supporting_feedback_ids_of_reversed(relevant_feedback) ==
    [k \in 1..Len(relevant_feedback) |->
        relevant_feedback[Len(relevant_feedback) + 1 - k].id]

\* line 109: [item.id for item in relevant_feedback]
supporting_feedback_ids_of(relevant_feedback) ==
    [k \in 1..Len(relevant_feedback) |-> relevant_feedback[k].id]

\* variant without the early return on empty evidence
generate_single_goal_no_evidence_check(trend, supporting_feedback, supporting_analyses, response, id) ==
    LET relevant_feedback ==
            _filter_relevant_feedback(trend, supporting_feedback, supporting_analyses)
        goal_data == _generate_goal_with_llm(response)
        priority  == _calculate_priority(trend)
        ids       == [k \in 1..Len(relevant_feedback) |-> relevant_feedback[k].id]
    IN  IF goal_data = None
        THEN SingleGoalResult("none", None, TRUE, relevant_feedback)
        ELSE IF ~GoalProposalValid(goal_data[1], priority)
        THEN SingleGoalResult("raise", None, TRUE, relevant_feedback)
        ELSE SingleGoalResult("goal",
                 Some(GoalProposal(id, goal_data[1], priority, trend, ids)),
                 TRUE, relevant_feedback)

generate_single_goal(trend, supporting_feedback, supporting_analyses, response, id) ==
    LET relevant_feedback ==
            _filter_relevant_feedback(trend, supporting_feedback, supporting_analyses)
        goal_data == _generate_goal_with_llm(response)
        priority  == _calculate_priority(trend)
        ids       == supporting_feedback_ids_of(relevant_feedback)
    IN  \* 95-97
        IF relevant_feedback = <<>>
        THEN SingleGoalResult("none", None, FALSE, relevant_feedback)
        \* 100-103
        ELSE IF goal_data = None
        THEN SingleGoalResult("none", None, TRUE, relevant_feedback)
        \* 114-125: ValidationError of the GoalProposal constructor
        ELSE IF ~GoalProposalValid(goal_data[1], priority)
        THEN SingleGoalResult("raise", None, TRUE, relevant_feedback)
        ELSE SingleGoalResult("goal",
                 Some(GoalProposal(id, goal_data[1], priority, trend, ids)),
                 TRUE, relevant_feedback)

(***************************************************************************)
(* GoalGenerationService.generate_goals_from_trends: the body of the for   *)
(* loop (lines 58-68) for one trend whose generate_single_goal ended with  *)
(* `result`: the new goals list and whether the loop goes on.              *)
(***************************************************************************)
\* variant without the try/except: an exception leaves the loop
loop_body_no_except(goals, result) ==
    IF result.outcome = "goal"
    THEN [goals |-> Append(goals, result.goal[1]), pc |-> "loop"]
    ELSE IF result.outcome = "raise"
    THEN [goals |-> goals, pc |-> "raised"]
    ELSE [goals |-> goals, pc |-> "loop"]

loop_body(goals, result) ==
    \* 62-63
    IF result.outcome = "goal"
    THEN [goals |-> Append(goals, result.goal[1]), pc |-> "loop"]
    \* 64-68: except Exception ... continue
    ELSE IF result.outcome = "raise"
    THEN [goals |-> goals, pc |-> "loop"]
    \* goal is None
    ELSE [goals |-> goals, pc |-> "loop"]

(***************************************************************************)
(* GoalGenerationService.generate_goals_from_trends as one call (lines     *)
(* 34-71): the loop over trends[1..k], answers[i] being what the           *)
(* generation collaborator answers if it is called for trend i.  The       *)
(* result holds the goals list, the trends the collaborator was called     *)
(* for, the next fresh id and whether an exception left the loop.          *)
(***************************************************************************)
RECURSIVE generate_goals_upto(_, _, _, _, _)
generate_goals_upto(trends, supporting_feedback, supporting_analyses, answers, k) ==
    IF k = 0 THEN [goals |-> <<>>, calls |-> <<>>, next_id |-> 1, raised |-> FALSE]
    ELSE LET before == generate_goals_upto(trends, supporting_feedback,
                                           supporting_analyses, answers, k - 1)
             result == generate_single_goal(trends[k], supporting_feedback,
                                            supporting_analyses, answers[k], before.next_id)
             after  == loop_body(before.goals, result)
         IN  IF before.raised THEN before
             ELSE [goals   |-> after.goals,
                   calls   |-> IF result.llm_called THEN Append(before.calls, k)
                               ELSE before.calls,
                   next_id |-> IF result.outcome = "goal" THEN before.next_id + 1
                               ELSE before.next_id,
                   raised  |-> after.pc = "raised"]

generate_goals_from_trends(trends, supporting_feedback, supporting_analyses, answers) ==
    generate_goals_upto(trends, supporting_feedback, supporting_analyses, answers,
                        Len(trends))

(***************************************************************************)
(* The store behind StorageService.  Daily summaries are kept by age in    *)
(* days (0 is today); feedback records carry their timestamp and analyses  *)
(* their analyzed_at as days relative to now (negative is the past).       *)
(***************************************************************************)
StoredAnalysis(fid, sentiment, topics, analyzed_at) ==
    [feedback_id |-> fid, sentiment |-> sentiment, topics |-> topics,
     analyzed_at |-> analyzed_at]

\* get_daily_summary_by_date(date) of a repository object that provides it:
\* the aggregate stored for that day, or None.  StorageService
\* (storage_service.py) defines no method of this name.
get_daily_summary_by_date(stored, age) ==
    IF age \in DOMAIN stored THEN stored[age] ELSE None

\* GoalProposalDB.from_pydantic (database_models.py): the row of a proposal
GoalProposalDB_from_pydantic(proposal) ==
    [id                      |-> proposal.id,
     title                   |-> proposal.title,
     description             |-> proposal.description,
     status                  |-> proposal.status,
     priority                |-> proposal.priority,
     trend_type              |-> proposal.source_trend.trend_type,
     trend_confidence        |-> proposal.source_trend.confidence,
     affected_feedback_count |-> proposal.source_trend.affected_feedback_count,
     primary_topics          |-> proposal.source_trend.primary_topics,
     sentiment_distribution  |-> proposal.source_trend.sentiment_distribution,
     time_period             |-> proposal.source_trend.time_period,
     severity_score          |-> proposal.source_trend.severity_score,
     supporting_feedback_ids |-> proposal.supporting_feedback_ids,
     created_by              |-> proposal.created_by,
     tags                    |-> proposal.tags,
     estimated_effort        |-> proposal.estimated_effort,
     potential_impact        |-> proposal.potential_impact]

\* StorageService.store_goal_proposals (lines 337-359): the goal_proposals
\* table after the call; session.merge replaces the row of the same id, a
\* SQLAlchemyError leaves the table as it was and makes the call return False
store_goal_proposals(table, proposals, success) ==
    IF ~success THEN table
    ELSE LET ids  == {proposals[k].id : k \in 1..Len(proposals)}
             kept == SelectSeq(table, LAMBDA row : row.id \notin ids)
         IN  kept \o [k \in 1..Len(proposals) |-> GoalProposalDB_from_pydantic(proposals[k])]

\* StorageService.update_goal_proposal_status (lines 418-448)
update_goal_proposal_status(table, proposal_id, new_status) ==
    LET found == {k \in 1..Len(table) : table[k].id = proposal_id}
    IN  IF found = {} THEN table
        ELSE LET first == CHOOSE k \in found : \A j \in found : k <= j
             IN  [table EXCEPT ![first].status = new_status]

\* GoalProposal (models.py 144-165): the fields declared without a default,
\* which the constructor rejects with a ValidationError when not given
GoalProposal_required ==
    {"title", "description", "priority", "source_trend", "supporting_feedback_ids",
     "summary_text"}

\* the keyword arguments of the constructor call that ends
\* GoalProposalDB.to_pydantic (database_models.py 405-418)
to_pydantic_arguments ==
    {"id", "title", "description", "status", "priority", "source_trend",
     "supporting_feedback_ids", "created_at", "created_by", "tags", "estimated_effort",
     "potential_impact"}

\* GoalProposalDB.to_pydantic (database_models.py 367-418): the trend is
\* rebuilt from the row's columns and the proposal is constructed from the
\* arguments above; the result tells how the call ended and what it
\* returned
GoalProposalDB_to_pydantic(row) ==
    LET trend_analysis == TrendAnalysis(row.trend_type, row.trend_confidence,
                                        row.affected_feedback_count,
                                        SelectSeq(row.primary_topics,
                                                  LAMBDA topic : topic \in TopicTag),
                                        row.sentiment_distribution, row.time_period,
                                        row.severity_score)
    IN  IF ~(GoalProposal_required \subseteq to_pydantic_arguments)
        THEN [outcome |-> "raise", error |-> "ValidationError", value |-> None]
        ELSE [outcome |-> "return", error |-> "",
              value |-> Some([id                      |-> row.id,
                              title                   |-> row.title,
                              description             |-> row.description,
                              status                  |-> row.status,
                              priority                |-> row.priority,
                              source_trend            |-> trend_analysis,
                              supporting_feedback_ids |-> row.supporting_feedback_ids,
                              created_by              |-> row.created_by,
                              tags                    |-> IF row.tags = JNull
                                                          THEN JStrList(0) ELSE row.tags,
                              estimated_effort        |-> row.estimated_effort,
                              potential_impact        |-> row.potential_impact])]

\* StorageService.get_goal_proposal_by_id (storage_service.py 394-416): the
\* first row of that id converted, or None; only SQLAlchemyError is caught,
\* so an exception of the conversion leaves the call
get_goal_proposal_by_id(table, proposal_id) ==
    LET found == {k \in 1..Len(table) : table[k].id = proposal_id}
    IN  IF found = {} THEN [outcome |-> "return", error |-> "", value |-> None]
        ELSE LET first == CHOOSE k \in found : \A j \in found : k <= j
             IN  GoalProposalDB_to_pydantic(table[first])

\* StorageService.get_goal_proposals (storage_service.py 361-392) without a
\* status filter: every row converted, newest first (the rows of the table
\* are in the order the proposals were created); an exception of a
\* conversion leaves the call
get_goal_proposals(table) ==
    LET converted == [k \in 1..Len(table) |->
                         GoalProposalDB_to_pydantic(table[Len(table) + 1 - k])]
    IN  IF \E k \in 1..Len(table) : converted[k].outcome = "raise"
        THEN [outcome |-> "raise", error |-> "ValidationError", value |-> None]
        ELSE [outcome |-> "return", error |-> "",
              value |-> Some([k \in 1..Len(table) |-> converted[k].value[1]])]

\* variant that drops the proposals when they could not be stored
goals_after_store_dropped(goals, success) == IF success THEN goals ELSE <<>>

\* ProductInsightAgent.generate_goals_from_trends, lines 317-325: the list
\* the entry point returns after the attempt to store
goals_after_store(goals, success) == goals

\* ProductInsightAgent.generate_goals_from_trends, lines 275-283: the dates
\* cutoff_date + i for i in range(days) are the ages days, days - 1, .., 1;
\* the summaries found for them, oldest first
RECURSIVE collected_summaries(_, _)
collected_summaries(stored, days) ==
    IF days <= 0 THEN <<>>
    ELSE LET summary == get_daily_summary_by_date(stored, days)
         IN  IF summary # None
             THEN <<summary[1]>> \o collected_summaries(stored, days - 1)
             ELSE collected_summaries(stored, days - 1)

\* StorageService.get_feedback_items_by_date_range(cutoff_date, utcnow)
get_feedback_items_by_date_range(stored, days) ==
    SelectSeq(stored, LAMBDA item : item.timestamp >= -days /\ item.timestamp <= 0)

\* StorageService.get_analyses_by_date_range(cutoff_date, utcnow)
get_analyses_by_date_range(stored, days) ==
    SelectSeq(stored, LAMBDA a : a.analyzed_at >= -days /\ a.analyzed_at <= 0)

(***************************************************************************)
(* DailySummary (src/models.py): the per-day aggregate.  The breakdowns    *)
(* hold every sentiment and every topic                                    *)
(* (ReportingService._calculate_topic_breakdown); topic_breakdown.items()  *)
(* iterates in the order of the TopicTag enumeration.                      *)
(***************************************************************************)
DailySummary(total, sentiment_breakdown, topic_breakdown) ==
    [total_feedback_items |-> total,
     sentiment_breakdown  |-> sentiment_breakdown,
     topic_breakdown      |-> topic_breakdown]

TopicTagOrder == <<BUG, FEATURE_REQUEST, UI_FEEDBACK, PERFORMANCE, DOCUMENTATION,
                   SUPPORT, GENERAL>>

(***************************************************************************)
(* Python helpers: sum(), insertion-ordered dict keys, stable sorted()     *)
(***************************************************************************)
\* sum(F(x) for x in seq)
SumOver(seq, F(_)) ==
    LET RECURSIVE sum_from(_)
        sum_from(k) == IF k > Len(seq) THEN 0 ELSE F(seq[k]) + sum_from(k + 1)
    IN  sum_from(1)

RECURSIVE Concat(_)
\* the concatenation of a sequence of sequences
Concat(seqs) ==
    IF Len(seqs) = 0 THEN <<>>
    ELSE IF Len(seqs) = 1 THEN seqs[1]
    ELSE LET half == Len(seqs) \div 2
         IN  Concat(SubSeq(seqs, 1, half)) \o Concat(SubSeq(seqs, half + 1, Len(seqs)))

\* the keys of a dict filled by walking seq: first occurrences, in order
KeysInOrder(seq) ==
    LET firsts == {k \in 1..Len(seq) : \A j \in 1..(k - 1) : seq[j] # seq[k]}
    IN  [i \in 1..Cardinality(firsts) |->
            seq[CHOOSE k \in firsts : Cardinality({j \in firsts : j < k}) = i - 1]]

CountOf(seq, x) == Cardinality({k \in 1..Len(seq) : seq[k] = x})

\* sorted(seq, key=Key, reverse=True) for an integer key: stable
SortedDescBy(seq, Key(_)) ==
    LET RECURSIVE sorted_prefix(_)
        sorted_prefix(n) ==
            IF n = 0 THEN <<>>
            ELSE LET sorted == sorted_prefix(n - 1)
                     x      == seq[n]
                     pos    == Cardinality({k \in 1..Len(sorted) : Key(sorted[k]) >= Key(x)})
                 IN  SubSeq(sorted, 1, pos) \o <<x>> \o SubSeq(sorted, pos + 1, Len(sorted))
    IN  sorted_prefix(Len(seq))

Floor(r) == r.n \div r.d           \* int() of a non-negative float

LastDays(n) == "Last " \o ToString(n) \o " days"

(***************************************************************************)
(* ReportingService._detect_sentiment_shifts                               *)
(***************************************************************************)
NegativeOf(summary) == summary.sentiment_breakdown[NEGATIVE]
PositiveOf(summary) == summary.sentiment_breakdown[POSITIVE]
NeutralOf(summary)  == summary.sentiment_breakdown[NEUTRAL]
TotalOf(summary)    == summary.total_feedback_items

\* all topics of the analyses of a sentiment, in the order they are walked
TopicsOfSentiment(analyses, sentiment) ==
    Concat([k \in 1..Len(analyses) |->
              IF analyses[k].sentiment = sentiment THEN analyses[k].topics ELSE <<>>])

\* variant that accepts any positive number of recent negative items
sentiment_shift_increase_any_count(recent_negative_ratio, historical_negative_ratio, recent_negative) ==
    /\ RGt(recent_negative_ratio, RAdd(historical_negative_ratio, Rat(2, 10)))
    /\ recent_negative >= 1

\* line 411: the significant increase of negative sentiment
sentiment_shift_increase(recent_negative_ratio, historical_negative_ratio, recent_negative) ==
    /\ RGt(recent_negative_ratio, RAdd(historical_negative_ratio, Rat(2, 10)))
    /\ recent_negative >= 5

\* line 437
sentiment_shift_confidence(shift) == RMin(Rat(9, 10), RMul(shift, Rat(3, 1)))

\* variant that forgets the volume term
sentiment_shift_severity_ratio_only(shift, recent_negative) ==
    RMin(Rat(1, 1), RMul(shift, Rat(2, 1)))

\* line 447
sentiment_shift_severity(shift, recent_negative) ==
    RMin(Rat(1, 1), RAdd(RMul(shift, Rat(2, 1)), Rat(recent_negative, 20)))

\* variant that tests the recent slice alone
sentiment_shift_slices_counted_recent_only(recent_total, historical_total) ==
    recent_total > 0

\* line 406: if recent_total > 0 and historical_total > 0
sentiment_shift_slices_counted(recent_total, historical_total) ==
    recent_total > 0 /\ historical_total > 0

\* the call raises instead of returning: past the test of line 406 the
\* divisions of lines 407 and 408 raise ZeroDivisionError on a zero total
_detect_sentiment_shifts_raises(summaries, feedback_items, analyses) ==
    /\ Len(summaries) >= 3
    /\ LET n                == Len(summaries)
           recent_total     == SumOver(SubSeq(summaries, n - 1, n), TotalOf)
           historical_total == SumOver(SubSeq(summaries, 1, n - 2), TotalOf)
       IN  /\ sentiment_shift_slices_counted(recent_total, historical_total)
           /\ (recent_total = 0 \/ historical_total = 0)

_detect_sentiment_shifts(summaries, feedback_items, analyses) ==
    IF Len(summaries) < 3 THEN <<>>
    ELSE
    LET n                    == Len(summaries)
        recent_summaries     == SubSeq(summaries, n - 1, n)
        historical_summaries == SubSeq(summaries, 1, n - 2)
        recent_negative      == SumOver(recent_summaries, NegativeOf)
        recent_total         == SumOver(recent_summaries, TotalOf)
        historical_negative  == SumOver(historical_summaries, NegativeOf)
        historical_total     == SumOver(historical_summaries, TotalOf)
    IN  IF ~sentiment_shift_slices_counted(recent_total, historical_total) THEN <<>>
        ELSE
        LET recent_negative_ratio     == Rat(recent_negative, recent_total)
            historical_negative_ratio == Rat(historical_negative, historical_total)
            shift == RSub(recent_negative_ratio, historical_negative_ratio)
            \* 413-416: items with a negative analysis
            recent_feedback ==
                SelectSeq(feedback_items,
                    LAMBDA item : \E k \in 1..Len(analyses) :
                        /\ analyses[k].feedback_id = item.id
                        /\ analyses[k].sentiment = NEGATIVE)
            negative_topics == TopicsOfSentiment(analyses, NEGATIVE)
            ranked == SortedDescBy(KeysInOrder(negative_topics),
                                   LAMBDA t : CountOf(negative_topics, t))
            primary_topics == SubSeq(ranked, 1, Min(3, Len(ranked)))
            sentiment_dist ==
                [s \in SentimentType |->
                    CASE s = NEGATIVE -> recent_negative
                      [] s = POSITIVE -> SumOver(recent_summaries, PositiveOf)
                      [] s = NEUTRAL  -> SumOver(recent_summaries, NeutralOf)]
        IN  IF sentiment_shift_increase(recent_negative_ratio, historical_negative_ratio,
                                        recent_negative)
               /\ recent_feedback # <<>>
            THEN <<TrendAnalysis(SENTIMENT_SHIFT,
                                 sentiment_shift_confidence(shift),
                                 recent_negative,
                                 primary_topics,
                                 sentiment_dist,
                                 LastDays(Len(recent_summaries)),
                                 sentiment_shift_severity(shift, recent_negative))>>
            ELSE <<>>

(***************************************************************************)
(* ReportingService._detect_topic_clusters                                 *)
(***************************************************************************)
AllTopics(analyses) == Concat([k \in 1..Len(analyses) |-> analyses[k].topics])

\* variant that weighs the general topic like any other
topic_cluster_sentiment_score_plain(topic, negative_ratio) == negative_ratio

\* line 489: negative_ratio if topic != TopicTag.GENERAL else negative_ratio * 0.8
topic_cluster_sentiment_score(topic, negative_ratio) ==
    IF topic # GENERAL THEN negative_ratio ELSE RMul(negative_ratio, Rat(8, 10))

\* the candidate of one topic of topic_counts, as a list of 0 or 1 trends
TopicClusterOf(topic, summaries, analyses) ==
    LET count          == CountOf(AllTopics(analyses), topic)
        total_feedback == Len(analyses)
        topic_analyses == SelectSeq(analyses,
                              LAMBDA a : \E j \in 1..Len(a.topics) : a.topics[j] = topic)
        sentiment_dist == [s \in SentimentType |->
                              Len(SelectSeq(topic_analyses, LAMBDA a : a.sentiment = s))]
        negative_ratio  == Rat(sentiment_dist[NEGATIVE], count)
        volume_score    == RMin(Rat(1, 1), Rat(count, 20))
        sentiment_score == topic_cluster_sentiment_score(topic, negative_ratio)
        severity_score  == RAdd(RMul(volume_score, Rat(6, 10)),
                                RMul(sentiment_score, Rat(4, 10)))
    IN  IF count >= 5 /\ RGe(Rat(count, total_feedback), Rat(15, 100))
           /\ RGe(severity_score, Rat(5, 10))
        THEN <<TrendAnalysis(TOPIC_CLUSTER,
                             RMin(Rat(95, 100), RAdd(volume_score, Rat(3, 10))),
                             count,
                             <<topic>>,
                             sentiment_dist,
                             LastDays(Len(summaries)),
                             severity_score)>>
        ELSE <<>>

_detect_topic_clusters(summaries, feedback_items, analyses) ==
    LET topics == KeysInOrder(AllTopics(analyses))     \* topic_counts.items()
    IN  Concat([k \in 1..Len(topics) |-> TopicClusterOf(topics[k], summaries, analyses)])

(***************************************************************************)
(* ReportingService._detect_volume_spikes                                  *)
(***************************************************************************)
\* variant that fires at exactly twice the average
volume_spike_fires_at_twice(recent_volume, avg_volume) ==
    RGe(Rat(recent_volume, 1), RMul(avg_volume, Rat(2, 1))) /\ recent_volume >= 10

\* line 526: recent_volume > avg_volume * 2 and recent_volume >= 10
volume_spike_fires(recent_volume, avg_volume) ==
    RGt(Rat(recent_volume, 1), RMul(avg_volume, Rat(2, 1))) /\ recent_volume >= 10

\* variant that normalizes the spike ratio by 4
volume_spike_severity_by_four(recent_volume, volume_sum, days) ==
    RMin(Rat(1, 1), Rat(recent_volume * days, volume_sum * 4))

\* line 537: min(1.0, (recent_volume / avg_volume) / 5), with avg_volume
\* the sum of the window's totals over its number of days
volume_spike_severity(recent_volume, volume_sum, days) ==
    RMin(Rat(1, 1), Rat(recent_volume * days, volume_sum * 5))

_detect_volume_spikes(summaries, feedback_items) ==
    IF Len(summaries) < 3 THEN <<>>
    ELSE
    LET volume_sum    == SumOver(summaries, TotalOf)
        avg_volume    == Rat(volume_sum, Len(summaries))
        recent_volume == summaries[Len(summaries)].total_feedback_items
    IN  IF volume_spike_fires(recent_volume, avg_volume)
        THEN <<TrendAnalysis(VOLUME_SPIKE,
                             Rat(9, 10),
                             recent_volume,
                             <<GENERAL>>,
                             [s \in SentimentType |-> IF s = NEUTRAL THEN recent_volume ELSE 0],
                             "Last day",
                             volume_spike_severity(recent_volume, volume_sum,
                                                   Len(summaries)))>>
        ELSE <<>>

\* the call raises instead of returning: with the spike test of line 526
\* passed, a zero average makes line 537 divide by zero, and a negative
\* average gives a negative severity_score, which the TrendAnalysis
\* constructor of line 539 rejects (severity_score has ge=0.0)
_detect_volume_spikes_raises(summaries, feedback_items) ==
    /\ Len(summaries) >= 3
    /\ LET volume_sum    == SumOver(summaries, TotalOf)
           recent_volume == summaries[Len(summaries)].total_feedback_items
       IN  /\ recent_volume * Len(summaries) > volume_sum * 2
           /\ recent_volume >= 10
           /\ volume_sum <= 0

(***************************************************************************)
(* ReportingService._detect_recurring_issues                               *)
(***************************************************************************)
TopicMentions(summary) ==
    SumOver(TopicTagOrder, LAMBDA t : summary.topic_breakdown[t])

\* variant without the cap at the topic's count
TopicNegativeEstimate_uncapped(summary, topic) ==
    LET count == summary.topic_breakdown[topic]
    IN  IF count > 0
        THEN Floor(Rat(NegativeOf(summary) * count, TopicMentions(summary)))
        ELSE 0

\* 576-583: topic_negative_estimate of a topic on a day (0 when the topic
\* does not enter daily_negative_topics)
TopicNegativeEstimate(summary, topic) ==
    LET count == summary.topic_breakdown[topic]
    IN  IF count > 0
        THEN Min(count, Floor(Rat(NegativeOf(summary) * count, TopicMentions(summary))))
        ELSE 0

\* the topics entered for a day, in topic_breakdown order
DayNegativeTopics(summary) ==
    SelectSeq(TopicTagOrder, LAMBDA t : TopicNegativeEstimate(summary, t) > 0)

RecurringIssueOf(topic, summaries) ==
    LET n               == Len(summaries)
        occurrence_days == Cardinality({d \in 1..n :
                                          TopicNegativeEstimate(summaries[d], topic) > 0})
        total_count     == SumOver(summaries, LAMBDA sm : TopicNegativeEstimate(sm, topic))
        consistency_score == Rat(occurrence_days, n)
        impact_score      == RMin(Rat(1, 1), Rat(total_count, 10))
        severity_score    == RAdd(RMul(consistency_score, Rat(7, 10)),
                                  RMul(impact_score, Rat(3, 10)))
    IN  \* occurrence_days >= len(summaries) * 0.5
        IF 2 * occurrence_days >= n /\ total_count >= 3
           /\ RGe(severity_score, Rat(6, 10))
        THEN <<TrendAnalysis(RECURRING_ISSUE,
                             Rat(8, 10),
                             total_count,
                             <<topic>>,
                             [s \in SentimentType |-> IF s = NEGATIVE THEN total_count ELSE 0],
                             LastDays(n),
                             severity_score)>>
        ELSE <<>>

\* variant that accepts windows of 3 days like the other detectors
_detect_recurring_issues_min3(summaries, feedback_items, analyses) ==
    IF Len(summaries) < 3 THEN <<>>
    ELSE
    LET topics == KeysInOrder(Concat([d \in 1..Len(summaries) |->
                                         DayNegativeTopics(summaries[d])]))
    IN  Concat([k \in 1..Len(topics) |-> RecurringIssueOf(topics[k], summaries)])

_detect_recurring_issues(summaries, feedback_items, analyses) ==
    IF Len(summaries) < 5 THEN <<>>
    ELSE
    LET \* topic_occurrence_days.items(): first appearance over the days
        topics == KeysInOrder(Concat([d \in 1..Len(summaries) |->
                                         DayNegativeTopics(summaries[d])]))
    IN  Concat([k \in 1..Len(topics) |-> RecurringIssueOf(topics[k], summaries)])

(***************************************************************************)
(* ReportingService.detect_significant_trends                              *)
(***************************************************************************)
SIGNIFICANCE_THRESHOLD == Rat(6, 10)

\* lines 356-372: the candidates of the four detectors, concatenated
AllCandidates(summaries, feedback_items, analyses) ==
    _detect_sentiment_shifts(summaries, feedback_items, analyses)
    \o _detect_topic_clusters(summaries, feedback_items, analyses)
    \o _detect_volume_spikes(summaries, feedback_items)
    \o _detect_recurring_issues(summaries, feedback_items, analyses)

RECURSIVE SortedBySeverityDesc(_)
\* line 378: list.sort(key=lambda t: t.severity_score, reverse=True)
SortedBySeverityDesc(trends) ==
    IF trends = <<>> THEN <<>>
    ELSE LET n      == Len(trends)
             sorted == SortedBySeverityDesc(SubSeq(trends, 1, n - 1))
             x      == trends[n]
             pos    == Cardinality({k \in 1..Len(sorted) :
                                      RGe(sorted[k].severity_score, x.severity_score)})
         IN  SubSeq(sorted, 1, pos) \o <<x>> \o SubSeq(sorted, pos + 1, Len(sorted))

\* variant whose significance cut is strict (> 0.6)
detect_significant_trends_strict(summaries, feedback_items, analyses) ==
    LET trends == AllCandidates(summaries, feedback_items, analyses)
        significant_trends ==
            SelectSeq(trends, LAMBDA t : RGt(t.severity_score, SIGNIFICANCE_THRESHOLD))
    IN  SortedBySeverityDesc(significant_trends)

\* variant that sorts by severity without keeping the order of ties (the
\* later of two equal trends is placed first)
detect_significant_trends_unstable(summaries, feedback_items, analyses) ==
    LET trends == AllCandidates(summaries, feedback_items, analyses)
        significant_trends ==
            SelectSeq(trends, LAMBDA t : RGe(t.severity_score, SIGNIFICANCE_THRESHOLD))
        RECURSIVE sorted_prefix(_)
        sorted_prefix(n) ==
            IF n = 0 THEN <<>>
            ELSE LET sorted == sorted_prefix(n - 1)
                     x      == significant_trends[n]
                     pos    == Cardinality({k \in 1..Len(sorted) :
                                   RGt(sorted[k].severity_score, x.severity_score)})
                 IN  SubSeq(sorted, 1, pos) \o <<x>> \o SubSeq(sorted, pos + 1, Len(sorted))
    IN  sorted_prefix(Len(significant_trends))

detect_significant_trends(summaries, feedback_items, analyses) ==
    LET trends == AllCandidates(summaries, feedback_items, analyses)
        significant_trends ==
            SelectSeq(trends, LAMBDA t : RGe(t.severity_score, SIGNIFICANCE_THRESHOLD))
    IN  SortedBySeverityDesc(significant_trends)

(***************************************************************************)
(* Bounds of the priority inputs                                           *)
(***************************************************************************)
SevDen           == 10   \* severities are the multiples of 1/SevDen in [0,1]
MaxAffected      == 21   \* affected_feedback_count ranges over 0..MaxAffected
MaxPrimaryTopics == 2    \* length of primary_topics in the priority inputs

RECURSIVE SeqsUpTo(_, _)
SeqsUpTo(S, n) ==
    IF n = 0 THEN {<<>>}
    ELSE LET shorter == SeqsUpTo(S, n - 1)
         IN  shorter \cup {Append(s, x) : s \in {t \in shorter : Len(t) = n - 1}, x \in S}

NoDist == [s \in SentimentType |-> 0]

\* topics occurring in the priority inputs: the two high priority topics
\* and two others
PriorityTopics == {BUG, PERFORMANCE, GENERAL, SUPPORT}

PriorityTrends ==
    {TrendAnalysis(tt, Rat(1, 2), cnt, topics, NoDist, "Last 7 days", Rat(k, SevDen)) :
        tt \in TrendType, cnt \in 0..MaxAffected,
        topics \in SeqsUpTo(PriorityTopics, MaxPrimaryTopics), k \in 0..SevDen}

(***************************************************************************)
(* Bounds of the relevance filter inputs.  A pool has 0..MaxPool records   *)
(* with ids 1..n; record i is classified as ClassOf[base[i mod 3]] for a   *)
(* base of three classification kinds, and its timestamp follows one of    *)
(* four orders.                                                            *)
(***************************************************************************)
MaxPool == 11

\* classification kinds of a pool record; "unclassified" has no analysis
ClassKinds == {"bug_neg", "gen_pos", "perf_ui_neu", "unclassified"}

ClassSentiment(kind) ==
    CASE kind = "bug_neg"     -> NEGATIVE
      [] kind = "gen_pos"     -> POSITIVE
      [] kind = "perf_ui_neu" -> NEUTRAL

ClassTopics(kind) ==
    CASE kind = "bug_neg"     -> <<BUG>>
      [] kind = "gen_pos"     -> <<GENERAL>>
      [] kind = "perf_ui_neu" -> <<PERFORMANCE, UI_FEEDBACK>>

TimeOrders == {"oldest_first", "newest_first", "same_time", "scrambled"}

TimestampOf(order, i, n) ==
    CASE order = "oldest_first" -> i
      [] order = "newest_first" -> n + 1 - i
      [] order = "same_time"    -> 1
      [] order = "scrambled"    -> 1 + ((i * 5) % 7)

PoolOf(n, order) == [i \in 1..n |-> FeedbackItem(i, TimestampOf(order, i, n))]

KindOf(base, i) == base[1 + (i % 3)]

RECURSIVE AnalysesOf(_, _)
AnalysesOf(n, base) ==
    IF n = 0 THEN <<>>
    ELSE LET kind == KindOf(base, n)
         IN  IF kind = "unclassified" THEN AnalysesOf(n - 1, base)
             ELSE Append(AnalysesOf(n - 1, base),
                         InsightAnalysis(n, ClassSentiment(kind), ClassTopics(kind)))

ClassBases == [1..3 -> ClassKinds]

InputTrend(tt, topics) ==
    TrendAnalysis(tt, Rat(4, 5), 8, topics, NoDist, "Last 7 days", Rat(7, 10))

FilterTrends ==
    {InputTrend(TOPIC_CLUSTER, <<BUG>>),
     InputTrend(TOPIC_CLUSTER, <<UI_FEEDBACK, GENERAL>>),
     InputTrend(SENTIMENT_SHIFT, <<PERFORMANCE>>),
     InputTrend(SENTIMENT_SHIFT, <<>>),
     InputTrend(VOLUME_SPIKE, <<GENERAL>>),
     InputTrend(RECURRING_ISSUE, <<DOCUMENTATION>>)}

(***************************************************************************)
(* Bounds of the batch inputs.  A batch takes 0..MaxTrends trends, a       *)
(* cyclic run of GoalTrendKinds from any start, over the empty pool or a   *)
(* pool of three records; the generation collaborator answers each call    *)
(* with one of LLMResponses.                                               *)
(***************************************************************************)
MaxTrends == 3

GoalTrendKinds ==
    <<TrendAnalysis(TOPIC_CLUSTER, Rat(4, 5), 5, <<BUG>>, NoDist, "Last 7 days", Rat(7, 10)),
      TrendAnalysis(RECURRING_ISSUE, Rat(4, 5), 3, <<DOCUMENTATION>>, NoDist, "Last 7 days",
                    Rat(3, 5)),
      TrendAnalysis(SENTIMENT_SHIFT, Rat(9, 10), 25, <<>>, NoDist, "Last 2 days", Rat(1, 1)),
      TrendAnalysis(VOLUME_SPIKE, Rat(9, 10), 15, <<GENERAL>>, NoDist, "Last day", Rat(3, 5))>>

TrendsOf(n, start) ==
    [i \in 1..n |-> GoalTrendKinds[1 + ((start + i) % Len(GoalTrendKinds))]]

\* record 1: bug, negative; record 2: general, positive; record 3: no analysis
GoalPool     == <<FeedbackItem(1, 1), FeedbackItem(2, 3), FeedbackItem(3, 2)>>
GoalAnalyses == <<InsightAnalysis(1, NEGATIVE, <<BUG>>), InsightAnalysis(2, POSITIVE, <<GENERAL>>)>>

\* no pool, the pool of three records, and a pool of MaxPool classified
\* records (bug, general, bug, ...) with scrambled timestamps
GoalPools ==
    {[feedback |-> <<>>, analyses |-> <<>>],
     [feedback |-> GoalPool, analyses |-> GoalAnalyses],
     [feedback |-> PoolOf(MaxPool, "scrambled"),
      analyses |-> AnalysesOf(MaxPool, <<"bug_neg", "gen_pos", "bug_neg">>)]}

GoodObject == LLMObject(JStr(MIN_TITLE_LENGTH), JStr(MIN_DESCRIPTION_LENGTH),
                        JAbsent, JAbsent, JAbsent)

LLMResponses ==
    {LLMRaises, LLMNotJson, LLMJsonArray, GoodObject}
    \cup {[GoodObject EXCEPT !.title = v] :
            v \in {JAbsent, JNull, JStr(0), JStr(5), JStr(MIN_TITLE_LENGTH - 1),
                   JStr(MAX_TITLE_LENGTH), JStr(MAX_TITLE_LENGTH + 1),
                   JStrList(MIN_TITLE_LENGTH), JNum(12)}}
    \cup {[GoodObject EXCEPT !.description = v] :
            v \in {JAbsent, JStr(MIN_DESCRIPTION_LENGTH - 1), JStr(120)}}
    \cup {[GoodObject EXCEPT !.tags = v] : v \in {JNull, JStrList(2), JStr(4)}}
    \cup {[GoodObject EXCEPT !.estimated_effort = v] : v \in {JStr(6), JNum(3)}}

(***************************************************************************)
(* Bounds of the detection inputs.  A window has 0..MaxDays daily          *)
(* summaries, each one of four day profiles; the analyses are those of a   *)
(* pool of 0, SmallPool or MaxPool classified records.                     *)
(***************************************************************************)
MaxDays   == 5
SmallPool == 6

Breakdown(bug, performance, general) ==
    [t \in TopicTag |-> CASE t = BUG         -> bug
                          [] t = PERFORMANCE -> performance
                          [] t = GENERAL     -> general
                          [] OTHER           -> 0]

Sentiments(positive, negative, neutral) ==
    [s \in SentimentType |-> CASE s = POSITIVE -> positive
                               [] s = NEGATIVE -> negative
                               [] s = NEUTRAL  -> neutral]

ZeroDay  == DailySummary(0,  Sentiments(0, 0, 0), Breakdown(0, 0, 0))
QuietDay == DailySummary(2,  Sentiments(2, 0, 0), Breakdown(0, 0, 2))
LowDay   == DailySummary(10, Sentiments(9, 1, 0), Breakdown(10, 0, 0))
StormDay == DailySummary(12, Sentiments(4, 6, 2), Breakdown(8, 4, 0))

DayProfiles == {ZeroDay, QuietDay, LowDay, StormDay}

\* further windows: 10 of 100 negative, then two days with 5 of 10 negative
CalmBigDay  == DailySummary(100, Sentiments(80, 10, 10), Breakdown(60, 0, 40))
HalfBadDay  == DailySummary(10,  Sentiments(5, 5, 0),    Breakdown(6, 0, 4))

\* a day with 2 of 3 items negative: a large increase on few items
SmallBadDay == DailySummary(3,   Sentiments(1, 2, 0),    Breakdown(3, 0, 0))

\* a malformed aggregate: a negative total
BrokenDay   == DailySummary(-20, Sentiments(0, 0, 0),    Breakdown(0, 0, 0))

\* one negative record of ten, six bug and four general mentions: the
\* proportional shares of the negative record are 0.6 and 0.4
MixedDay    == DailySummary(10,  Sentiments(9, 1, 0),    Breakdown(6, 0, 4))

\* ten negative records, only two topic mentions
CappedDay   == DailySummary(10,  Sentiments(0, 10, 0),   Breakdown(2, 0, 0))

\* a day of ten records, none of them negative
CalmDay     == DailySummary(10,  Sentiments(10, 0, 0),   Breakdown(0, 0, 10))

SpecialWindows ==
    {<<MixedDay, MixedDay, MixedDay, MixedDay, MixedDay>>,
     <<QuietDay, CalmDay, HalfBadDay>>,
     <<CappedDay, CappedDay, CappedDay, CappedDay, CappedDay>>,
     <<CalmBigDay, HalfBadDay, HalfBadDay>>,
     <<QuietDay, SmallBadDay, SmallBadDay>>,
     <<BrokenDay, LowDay, LowDay>>,
     <<BrokenDay, QuietDay, LowDay>>,
     <<BrokenDay, LowDay, QuietDay>>}

Windows == SeqsUpTo(DayProfiles, MaxDays) \cup SpecialWindows

(***************************************************************************)
(* Inputs of the topic-cluster detector alone: of `total` classified       *)
(* records the first `count` carry the topic (and, with `both`, the        *)
(* performance topic as well), the first `negative` of them negatively;    *)
(* the other records are neutral feature requests.                         *)
(***************************************************************************)
MaxCluster == 20

ClusterCounts == {4, 5, 6, 10, 16, MaxCluster}

ClusterTotals == {6, 16, 30, 34, 2 * MaxCluster}

ClusterNegatives(count) == {0, 1, count \div 2, count - 1, count}

ClusterAnalyses(total, count, negative, topic, both) ==
    [i \in 1..total |->
        IF i <= count
        THEN InsightAnalysis(i, IF i <= negative THEN NEGATIVE ELSE POSITIVE,
                             IF both THEN <<topic, PERFORMANCE>> ELSE <<topic>>)
        ELSE InsightAnalysis(i, NEUTRAL, <<FEATURE_REQUEST>>)]

DetectKindSentiment(kind) ==
    IF kind \in {"perf_ui_neg", "gen_neg"} THEN NEGATIVE ELSE ClassSentiment(kind)

DetectKindTopics(kind) ==
    IF kind = "perf_ui_neg" THEN <<PERFORMANCE, UI_FEEDBACK>>
    ELSE IF kind = "gen_neg" THEN <<GENERAL>>
    ELSE ClassTopics(kind)

DetectBases ==
    {<<"bug_neg", "bug_neg", "bug_neg">>,
     <<"gen_neg", "gen_pos", "gen_pos">>,
     <<"perf_ui_neg", "perf_ui_neg", "perf_ui_neg">>,
     <<"bug_neg", "gen_pos", "perf_ui_neg">>,
     <<"gen_pos", "gen_pos", "gen_pos">>}

DetectAnalysesOf(n, base) ==
    [i \in 1..n |-> InsightAnalysis(i, DetectKindSentiment(KindOf(base, i)),
                                    DetectKindTopics(KindOf(base, i)))]

(***************************************************************************)
(* Bounds of the pipeline inputs: the store holds one of StoredWindows as  *)
(* its daily summaries and one of StoredPools as its feedback records and  *)
(* analyses; the entry point is called with one of WindowDays.             *)
(***************************************************************************)
MaxAge == 8

\* the summaries `window` (oldest first) stored for consecutive days, the
\* last one `youngest` days ago
ByAge(window, youngest) ==
    [age \in 0..MaxAge |->
        IF age >= youngest /\ age < youngest + Len(window)
        THEN Some(window[youngest + Len(window) - age])
        ELSE None]

\* five calm days and two days with half of the records negative: a
\* sentiment shift without a volume spike or a recurring issue
ShiftWeek  == <<CalmDay, CalmDay, CalmDay, CalmDay, CalmDay, HalfBadDay, HalfBadDay>>
StormWeek  == <<LowDay, LowDay, LowDay, LowDay, LowDay, StormDay, StormDay>>
BrokenDays == <<BrokenDay, LowDay, LowDay>>

StoredWindows ==
    {ByAge(<<>>, 1), ByAge(<<LowDay>>, 1), ByAge(<<QuietDay, QuietDay, QuietDay>>, 1),
     ByAge(ShiftWeek, 1), ByAge(ShiftWeek, 0), ByAge(StormWeek, 1), ByAge(BrokenDays, 1)}

\* records 1 (bug, negative) and 2 (general, positive) are classified,
\* record 3 is not; record 4 is older than any window
EvidencePool ==
    [feedback |-> <<FeedbackItem(1, -1), FeedbackItem(2, -2), FeedbackItem(3, -1)>>,
     analyses |-> <<StoredAnalysis(1, NEGATIVE, <<BUG>>, -1),
                    StoredAnalysis(2, POSITIVE, <<GENERAL>>, -1)>>]

StoredPools ==
    {[feedback |-> <<>>, analyses |-> <<>>],
     EvidencePool,
     [feedback |-> <<FeedbackItem(2, -2), FeedbackItem(3, -1)>>,
      analyses |-> <<StoredAnalysis(2, POSITIVE, <<GENERAL>>, -1)>>],
     [feedback |-> <<FeedbackItem(4, -20)>>,
      analyses |-> <<StoredAnalysis(4, NEGATIVE, <<BUG>>, -20)>>]}

WindowDays == {0, 3, 7}

\* "absent": the storage object is a StorageService, which has no
\* get_daily_summary_by_date; "by_date": it provides the method; "fails":
\* it provides the method and the method raises
Getters == {"absent", "by_date", "fails"}

PipelineResponses ==
    {GoodObject, LLMRaises, [GoodObject EXCEPT !.title = JStr(5)],
     [GoodObject EXCEPT !.tags = JStr(4)]}

Init ==
    /\ p_trend = None
    /\ p_result = None
    /\ f_trend = None
    /\ f_feedback = <<>>
    /\ f_analyses = <<>>
    /\ f_result = None
    /\ f_pool = <<>>
    /\ f_again = None
    /\ g_pc = "idle"
    /\ g_trends = <<>>
    /\ g_feedback = <<>>
    /\ g_analyses = <<>>
    /\ g_i = 1
    /\ g_goals = <<>>
    /\ g_results = <<>>
    /\ g_calls = <<>>
    /\ g_next_id = 1
    /\ d_pc = "idle"
    /\ d_summaries = <<>>
    /\ d_feedback = <<>>
    /\ d_analyses = <<>>
    /\ d_sentiment = <<>>
    /\ d_topic = <<>>
    /\ d_volume = <<>>
    /\ d_recurring = <<>>
    /\ d_result = <<>>
    /\ a_pc = "idle"
    /\ a_days = 0
    /\ a_getter = "absent"
    /\ a_stored_summaries = <<>>
    /\ a_stored_feedback = <<>>
    /\ a_stored_analyses = <<>>
    /\ a_summaries = <<>>
    /\ a_feedback = <<>>
    /\ a_analyses = <<>>
    /\ a_trends = <<>>
    /\ a_calls = <<>>
    /\ a_goals = <<>>
    /\ a_table = <<>>
    /\ a_success = None
    /\ a_error = None
    /\ a_result = None
    /\ a_updates = {}
    /\ s_pc = "idle"
    /\ s_goals = <<>>
    /\ s_table = <<>>
    /\ s_success = None
    /\ s_read = None

\* one call of _calculate_priority on an arbitrary trend
CalculatePriority ==
    /\ p_trend = None
    /\ \E t \in PriorityTrends :
        /\ p_trend' = Some(t)
        /\ p_result' = Some(_calculate_priority(t))
    /\ UNCHANGED <<filter_vars, goal_vars, detect_vars, agent_vars, storage_vars>>

NextPriority == CalculatePriority

SpecPriority == Init /\ [][NextPriority]_vars

\* one call of _filter_relevant_feedback on a trend, a pool and analyses
FilterRelevantFeedback ==
    /\ f_result = None
    /\ \E t \in FilterTrends, n \in 0..MaxPool, order \in TimeOrders, base \in ClassBases :
        /\ f_trend' = Some(t)
        /\ f_feedback' = PoolOf(n, order)
        /\ f_analyses' = AnalysesOf(n, base)
        /\ f_result' = Some(_filter_relevant_feedback(t, PoolOf(n, order), AnalysesOf(n, base)))
        /\ f_pool' = supporting_feedback_after(PoolOf(n, order))
    /\ UNCHANGED <<f_again, priority_vars, goal_vars, detect_vars, agent_vars, storage_vars>>

\* the caller passes the same trend, pool list and analyses a second time
FilterRelevantFeedbackAgain ==
    /\ f_result # None
    /\ f_again = None
    /\ f_again' = Some(_filter_relevant_feedback(f_trend[1], f_pool, f_analyses))
    /\ f_pool' = supporting_feedback_after(f_pool)
    /\ UNCHANGED <<f_trend, f_feedback, f_analyses, f_result,
                   priority_vars, goal_vars, detect_vars, agent_vars, storage_vars>>

NextFilter == FilterRelevantFeedback \/ FilterRelevantFeedbackAgain

SpecFilter == Init /\ [][NextFilter]_vars

\* variant that calls the collaborator a second time after it raised
llm_call_attempts_retry(response) == IF response.kind = "raise" THEN 2 ELSE 1

\* _generate_goal_with_llm (lines 205-232): the number of _call_llm calls
\* made for one trend; line 206 is the only call and both except clauses
\* return None
llm_call_attempts(response) == 1

\* generate_goals_from_trends is called (lines 34-55)
StartBatch ==
    /\ g_pc = "idle"
    /\ \E n \in 0..MaxTrends, start \in 1..Len(GoalTrendKinds), pool \in GoalPools :
        /\ g_trends' = TrendsOf(n, start)
        /\ g_feedback' = pool.feedback
        /\ g_analyses' = pool.analyses
    /\ g_pc' = "loop"
    /\ g_i' = 1
    /\ g_goals' = <<>>
    /\ UNCHANGED <<g_results, g_calls, g_next_id>>
    /\ UNCHANGED <<priority_vars, filter_vars, detect_vars, agent_vars, storage_vars>>

\* one iteration of the for loop (lines 57-68): generate_single_goal for
\* the next trend, the collaborator answering `response` if it is called
ProcessTrend ==
    /\ g_pc = "loop"
    /\ g_i <= Len(g_trends)
    /\ \E response \in LLMResponses :
        LET result == generate_single_goal(g_trends[g_i], g_feedback, g_analyses,
                                           response, g_next_id)
            after  == loop_body(g_goals, result)
        IN  \* an answer is only drawn when the collaborator is called
            /\ result.llm_called \/ response = LLMRaises
            /\ g_results' = Append(g_results, result)
            /\ g_calls' = IF result.llm_called
                          THEN g_calls \o [k \in 1..llm_call_attempts(response) |->
                                              [trend |-> g_i, response |-> response]]
                          ELSE g_calls
            /\ g_next_id' = IF result.outcome = "goal" THEN g_next_id + 1 ELSE g_next_id
            /\ g_goals' = after.goals
            /\ g_pc' = after.pc
    /\ g_i' = g_i + 1
    /\ UNCHANGED <<g_trends, g_feedback, g_analyses>>
    /\ UNCHANGED <<priority_vars, filter_vars, detect_vars, agent_vars, storage_vars>>

\* the loop is exhausted: return goals (lines 70-71)
ReturnGoals ==
    /\ g_pc = "loop"
    /\ g_i > Len(g_trends)
    /\ g_pc' = "returned"
    /\ UNCHANGED <<g_trends, g_feedback, g_analyses, g_i, g_goals, g_results, g_calls,
                   g_next_id>>
    /\ UNCHANGED <<priority_vars, filter_vars, detect_vars, agent_vars, storage_vars>>

NextGoals == StartBatch \/ ProcessTrend \/ ReturnGoals

SpecGoals == Init /\ [][NextGoals]_vars

\* one call of detect_significant_trends (lines 356-382)
DetectSignificantTrends ==
    /\ d_pc = "idle"
    /\ \E summaries \in Windows,
          n \in {0, SmallPool, MaxPool}, base \in DetectBases :
        LET feedback_items == PoolOf(n, "oldest_first")
            analyses       == DetectAnalysesOf(n, base)
        IN  /\ d_summaries' = summaries
            /\ d_feedback' = feedback_items
            /\ d_analyses' = analyses
            /\ IF _detect_sentiment_shifts_raises(summaries, feedback_items, analyses)
               THEN \* the exception leaves detect_significant_trends at line 359
                    /\ d_sentiment' = <<>>
                    /\ d_topic' = <<>>
                    /\ d_volume' = <<>>
                    /\ d_recurring' = <<>>
                    /\ d_result' = <<>>
                    /\ d_pc' = "raised"
               ELSE
               /\ d_sentiment' = _detect_sentiment_shifts(summaries, feedback_items, analyses)
               /\ d_topic' = _detect_topic_clusters(summaries, feedback_items, analyses)
               /\ IF _detect_volume_spikes_raises(summaries, feedback_items)
                  THEN \* the exception leaves detect_significant_trends at line 367
                       /\ d_volume' = <<>>
                       /\ d_recurring' = <<>>
                       /\ d_result' = <<>>
                       /\ d_pc' = "raised"
                  ELSE /\ d_volume' = _detect_volume_spikes(summaries, feedback_items)
                       /\ d_recurring' =
                              _detect_recurring_issues(summaries, feedback_items, analyses)
                       /\ d_result' =
                              detect_significant_trends(summaries, feedback_items, analyses)
                       /\ d_pc' = "returned"
    /\ UNCHANGED <<priority_vars, filter_vars, goal_vars, agent_vars, storage_vars>>

NextDetect == DetectSignificantTrends

\* _detect_topic_clusters called on its own (lines 452-507)
DetectTopicClusters ==
    /\ d_pc = "idle"
    /\ \E total \in ClusterTotals, count \in ClusterCounts, topic \in {BUG, GENERAL},
          both \in BOOLEAN :
        /\ count <= total
        /\ \E negative \in ClusterNegatives(count) :
            LET summaries == <<LowDay, LowDay, LowDay>>
                analyses  == ClusterAnalyses(total, count, negative, topic, both)
            IN  /\ d_summaries' = summaries
                /\ d_analyses' = analyses
                /\ d_topic' = _detect_topic_clusters(summaries, <<>>, analyses)
    /\ d_pc' = "clustered"
    /\ UNCHANGED <<d_feedback, d_sentiment, d_volume, d_recurring, d_result>>
    /\ UNCHANGED <<priority_vars, filter_vars, goal_vars, agent_vars, storage_vars>>

NextClusters == DetectTopicClusters

SpecClusters == Init /\ [][NextClusters]_vars

SpecDetect == Init /\ [][NextDetect]_vars

(***************************************************************************)
(* ProductInsightAgent.generate_goals_from_trends (main.py 261-329)        *)
(***************************************************************************)
\* variant without the except clause: the exception leaves the entry point
\* and there is no return value
except_Exception_reraised(e) == [error |-> Some(e), result |-> None]

\* lines 327-329: except Exception as e: ... return []
except_Exception(e) == [error |-> Some(e), result |-> Some(<<>>)]

AgentCatches(e) ==
    /\ a_error' = except_Exception(e).error
    /\ a_result' = except_Exception(e).result
    /\ a_pc' = "returned"

AgentReturns(list) ==
    /\ a_error' = None
    /\ a_result' = Some(list)
    /\ a_pc' = "returned"

\* the entry point is called
StartPipeline ==
    /\ a_pc = "idle"
    /\ \E days \in WindowDays, getter \in Getters, stored \in StoredWindows,
          pool \in StoredPools :
        /\ a_days' = days
        /\ a_getter' = getter
        /\ a_stored_summaries' = stored
        /\ a_stored_feedback' = pool.feedback
        /\ a_stored_analyses' = pool.analyses
    /\ a_pc' = "collect"
    /\ UNCHANGED <<a_summaries, a_feedback, a_analyses, a_trends, a_calls, a_goals,
                   a_table, a_success, a_error, a_result, a_updates>>
    /\ UNCHANGED <<priority_vars, filter_vars, goal_vars, detect_vars, storage_vars>>

\* lines 275-287: the summaries of the window
CollectSummaries ==
    /\ a_pc = "collect"
    /\ IF a_days >= 1 /\ a_getter = "absent"
       THEN \* line 281: 'StorageService' object has no attribute
            \* 'get_daily_summary_by_date'
            AgentCatches("AttributeError") /\ UNCHANGED a_summaries
       ELSE IF a_days >= 1 /\ a_getter = "fails"
       THEN AgentCatches("Exception") /\ UNCHANGED a_summaries
       ELSE LET summaries == collected_summaries(a_stored_summaries, a_days)
            IN  /\ a_summaries' = summaries
                /\ IF Len(summaries) < 2
                   THEN AgentReturns(<<>>)
                   ELSE a_pc' = "fetch" /\ UNCHANGED <<a_error, a_result>>
    /\ UNCHANGED <<a_days, a_getter, a_stored_summaries, a_stored_feedback,
                   a_stored_analyses, a_feedback, a_analyses, a_trends, a_calls,
                   a_goals, a_table, a_success, a_updates>>
    /\ UNCHANGED <<priority_vars, filter_vars, goal_vars, detect_vars, storage_vars>>

\* lines 289-299: the feedback and the analyses of the window; either query
\* can fail with an SQLAlchemyError, which the storage service answers by []
FetchWindow ==
    /\ a_pc = "fetch"
    /\ \E feedback_ok, analyses_ok \in BOOLEAN :
        LET feedback_items ==
                IF feedback_ok
                THEN get_feedback_items_by_date_range(a_stored_feedback, a_days)
                ELSE <<>>
            analyses ==
                IF analyses_ok
                THEN get_analyses_by_date_range(a_stored_analyses, a_days)
                ELSE <<>>
        IN  /\ a_feedback' = feedback_items
            /\ a_analyses' = analyses
            /\ IF feedback_items = <<>> \/ analyses = <<>>
               THEN AgentReturns(<<>>)
               ELSE a_pc' = "detect" /\ UNCHANGED <<a_error, a_result>>
    /\ UNCHANGED <<a_days, a_getter, a_stored_summaries, a_stored_feedback,
                   a_stored_analyses, a_summaries, a_trends, a_calls, a_goals,
                   a_table, a_success, a_updates>>
    /\ UNCHANGED <<priority_vars, filter_vars, goal_vars, detect_vars, storage_vars>>

\* lines 301-310
DetectTrends ==
    /\ a_pc = "detect"
    /\ IF \/ _detect_sentiment_shifts_raises(a_summaries, a_feedback, a_analyses)
          \/ _detect_volume_spikes_raises(a_summaries, a_feedback)
       THEN AgentCatches("Exception") /\ UNCHANGED a_trends
       ELSE LET trends == detect_significant_trends(a_summaries, a_feedback, a_analyses)
            IN  /\ a_trends' = trends
                /\ IF trends = <<>>
                   THEN AgentReturns(<<>>)
                   ELSE a_pc' = "generate" /\ UNCHANGED <<a_error, a_result>>
    /\ UNCHANGED <<a_days, a_getter, a_stored_summaries, a_stored_feedback,
                   a_stored_analyses, a_summaries, a_feedback, a_analyses, a_calls,
                   a_goals, a_table, a_success, a_updates>>
    /\ UNCHANGED <<priority_vars, filter_vars, goal_vars, detect_vars, storage_vars>>

\* lines 312-315: the goal service is called with the trends and the window's
\* evidence; answers[i] is what the generation call answers for trend i
GenerateGoals ==
    /\ a_pc = "generate"
    /\ \E answers \in [1..Len(a_trends) -> PipelineResponses] :
        LET run == generate_goals_from_trends(a_trends, a_feedback, a_analyses, answers)
        IN  /\ \A i \in 1..Len(a_trends) :
                   (\A k \in 1..Len(run.calls) : run.calls[k] # i) => answers[i] = LLMRaises
            /\ a_calls' = [k \in 1..Len(run.calls) |->
                              [trend |-> run.calls[k], response |-> answers[run.calls[k]]]]
            /\ a_goals' = run.goals
            /\ IF run.raised
               THEN AgentCatches("Exception")
               ELSE a_pc' = "store" /\ UNCHANGED <<a_error, a_result>>
    /\ UNCHANGED <<a_days, a_getter, a_stored_summaries, a_stored_feedback,
                   a_stored_analyses, a_summaries, a_feedback, a_analyses, a_trends,
                   a_table, a_success, a_updates>>
    /\ UNCHANGED <<priority_vars, filter_vars, goal_vars, detect_vars, storage_vars>>

\* lines 317-325: the goals are stored when there are any; a failure to
\* store is logged and the goals are returned all the same
StoreGoals ==
    /\ a_pc = "store"
    /\ IF a_goals = <<>>
       THEN /\ AgentReturns(a_goals)
            /\ UNCHANGED <<a_table, a_success>>
       ELSE \E success \in BOOLEAN :
            /\ a_table' = store_goal_proposals(a_table, a_goals, success)
            /\ a_success' = Some(success)
            /\ AgentReturns(goals_after_store(a_goals, success))
    /\ UNCHANGED <<a_days, a_getter, a_stored_summaries, a_stored_feedback,
                   a_stored_analyses, a_summaries, a_feedback, a_analyses, a_trends,
                   a_calls, a_goals, a_updates>>
    /\ UNCHANGED <<priority_vars, filter_vars, goal_vars, detect_vars, storage_vars>>

\* StorageService.update_goal_proposal_status, called on one of the
\* stored proposals after the entry point has returned
UpdateGoalProposalStatus ==
    /\ a_pc = "returned"
    /\ a_table # <<>>
    /\ \E k \in 1..Len(a_table), new_status \in {"approved", "rejected"} :
        /\ a_table[k].id \notin a_updates
        /\ a_table' = update_goal_proposal_status(a_table, a_table[k].id, new_status)
        /\ a_updates' = a_updates \cup {a_table[k].id}
    /\ UNCHANGED <<a_pc, a_days, a_getter, a_stored_summaries, a_stored_feedback,
                   a_stored_analyses, a_summaries, a_feedback, a_analyses, a_trends,
                   a_calls, a_goals, a_success, a_error, a_result>>
    /\ UNCHANGED <<priority_vars, filter_vars, goal_vars, detect_vars, storage_vars>>

NextPipeline ==
    \/ StartPipeline
    \/ CollectSummaries
    \/ FetchWindow
    \/ DetectTrends
    \/ GenerateGoals
    \/ StoreGoals
    \/ UpdateGoalProposalStatus

SpecPipeline == Init /\ [][NextPipeline]_vars

(***************************************************************************)
(* The goal_proposals repository: proposals of the goal service are        *)
(* stored, then read back                                                  *)
(***************************************************************************)
StorageResponses ==
    {GoodObject, [GoodObject EXCEPT !.tags = JStrList(2)],
     [GoodObject EXCEPT !.tags = JAbsent], [GoodObject EXCEPT !.title = JStr(5)]}

\* generate_goals_from_trends produces proposals and store_goal_proposals
\* (storage_service.py 337-359) saves them into the empty table
StoreGoalProposals ==
    /\ s_pc = "idle"
    /\ \E n \in 1..MaxTrends, start \in 1..Len(GoalTrendKinds), pool \in GoalPools,
          success \in BOOLEAN :
        \E answers \in [1..n -> StorageResponses] :
            LET run == generate_goals_from_trends(TrendsOf(n, start), pool.feedback,
                                                  pool.analyses, answers)
            IN  /\ ~run.raised
                /\ run.goals # <<>>
                /\ s_goals' = run.goals
                /\ s_table' = store_goal_proposals(<<>>, run.goals, success)
                /\ s_success' = Some(success)
    /\ s_pc' = "stored"
    /\ UNCHANGED s_read
    /\ UNCHANGED <<priority_vars, filter_vars, goal_vars, detect_vars, agent_vars>>

\* one call of get_goal_proposal_by_id (storage_service.py 394-416); id 0
\* is the id of no row
GetGoalProposalById ==
    /\ s_pc = "stored"
    /\ s_read = None
    /\ \E proposal_id \in 0..MaxTrends :
        s_read' = Some([method |-> "get_goal_proposal_by_id", id |-> proposal_id,
                        result |-> get_goal_proposal_by_id(s_table, proposal_id)])
    /\ UNCHANGED <<s_pc, s_goals, s_table, s_success>>
    /\ UNCHANGED <<priority_vars, filter_vars, goal_vars, detect_vars, agent_vars>>

\* one call of get_goal_proposals (storage_service.py 361-392)
GetGoalProposals ==
    /\ s_pc = "stored"
    /\ s_read = None
    /\ s_read' = Some([method |-> "get_goal_proposals", id |-> 0,
                       result |-> get_goal_proposals(s_table)])
    /\ UNCHANGED <<s_pc, s_goals, s_table, s_success>>
    /\ UNCHANGED <<priority_vars, filter_vars, goal_vars, detect_vars, agent_vars>>

NextStorage == StoreGoalProposals \/ GetGoalProposalById \/ GetGoalProposals

SpecStorage == Init /\ [][NextStorage]_vars

(***************************************************************************)
(* Claims about the priority calculator                                    *)
(***************************************************************************)
PriorityCalled == p_trend # None

\* C4: _calculate_priority returns an integer in 1..5 for every trend, and
\* the combination severity >= 0.9, sentiment-shift, affected count >= 20
\* and a bug topic yields exactly 5.
C4_PriorityRange ==
    PriorityCalled =>
        /\ p_result[1] \in 1..5
        /\ ( /\ RGe(p_trend[1].severity_score, Rat(9, 10))
             /\ p_trend[1].trend_type = SENTIMENT_SHIFT
             /\ p_trend[1].affected_feedback_count >= 20
             /\ \E k \in 1..Len(p_trend[1].primary_topics) : p_trend[1].primary_topics[k] = BUG )
           => p_result[1] = 5

\* a call with severity 0.9, sentiment-shift, 21 affected records, [bug]
C4_Witness ==
    /\ PriorityCalled
    /\ p_trend[1].severity_score = Rat(9, 10)
    /\ p_trend[1].trend_type = SENTIMENT_SHIFT
    /\ p_trend[1].affected_feedback_count = 21
    /\ p_trend[1].primary_topics = <<BUG>>
    /\ p_result[1] = 5

\* the reference computation of the specification: severity band, then the
\* three adjustments in order, the running value clamped after each
Clamp15(x) == IF x < 1 THEN 1 ELSE IF x > 5 THEN 5 ELSE x

RefBase(t) ==
    CASE RGe(t.severity_score, Rat(9, 10)) -> 5
      [] RGe(t.severity_score, Rat(8, 10)) /\ ~RGe(t.severity_score, Rat(9, 10)) -> 4
      [] RGe(t.severity_score, Rat(6, 10)) /\ ~RGe(t.severity_score, Rat(8, 10)) -> 3
      [] RGe(t.severity_score, Rat(4, 10)) /\ ~RGe(t.severity_score, Rat(6, 10)) -> 2
      [] OTHER -> 1

RefTypeAdj(t)  == IF t.trend_type \in {SENTIMENT_SHIFT, RECURRING_ISSUE} THEN 1 ELSE 0
RefCountAdj(t) == IF t.affected_feedback_count >= 20 THEN 1
                  ELSE IF t.affected_feedback_count <= 3 THEN -1 ELSE 0
RefTopicAdj(t) == IF \E k \in DOMAIN t.primary_topics : t.primary_topics[k] \in {BUG, PERFORMANCE}
                  THEN 1 ELSE 0

RefPriority(t) ==
    Clamp15(Clamp15(Clamp15(RefBase(t) + RefTypeAdj(t)) + RefCountAdj(t)) + RefTopicAdj(t))

RefPlainSum(t) == Clamp15(RefBase(t) + RefTypeAdj(t) + RefCountAdj(t) + RefTopicAdj(t))

\* C5: _calculate_priority equals the reference computation (bands, then
\* +1 type, +1/-1 count, +1 topic, clamped into 1..5 after each step); for
\* severity < 0.4, topic-cluster, count 2 and a bug topic it is 2 while the
\* clamp of the plain sum is 1; with no adjustment applicable it is the band.
C5_PriorityReference ==
    PriorityCalled =>
        /\ p_result[1] = RefPriority(p_trend[1])
        /\ ( /\ ~RGe(p_trend[1].severity_score, Rat(4, 10))
             /\ p_trend[1].trend_type = TOPIC_CLUSTER
             /\ p_trend[1].affected_feedback_count = 2
             /\ p_trend[1].primary_topics = <<BUG>> )
           => (p_result[1] = 2 /\ RefPlainSum(p_trend[1]) = 1)
        /\ ( RefTypeAdj(p_trend[1]) = 0 /\ RefCountAdj(p_trend[1]) = 0 /\ RefTopicAdj(p_trend[1]) = 0 )
           => p_result[1] = RefBase(p_trend[1])

\* the call of the example: severity 0.3, topic-cluster, 2 affected, [bug]
C5_Witness ==
    /\ PriorityCalled
    /\ p_trend[1].severity_score = Rat(3, 10)
    /\ p_trend[1].trend_type = TOPIC_CLUSTER
    /\ p_trend[1].affected_feedback_count = 2
    /\ p_trend[1].primary_topics = <<BUG>>
    /\ p_result[1] = 2

(***************************************************************************)
(* Claims about the relevance filter                                       *)
(***************************************************************************)
FilterCalled == f_result # None

FilterOutput == f_result[1]

\* the classifications supplied for a pool record
ClassificationsOf(r) ==
    {f_analyses[k] : k \in {j \in 1..Len(f_analyses) : f_analyses[j].feedback_id = r.id}}

Range(seq) == {seq[k] : k \in 1..Len(seq)}

\* the relevance rule as the specification words it, for a pool record
\* whose topic set and sentiment are those of its classification (a
\* record without classification has neither)
RuleHolds(r) ==
    \/ \E a \in ClassificationsOf(r) : Range(a.topics) \cap Range(f_trend[1].primary_topics) # {}
    \/ f_trend[1].trend_type = SENTIMENT_SHIFT
         /\ \E a \in ClassificationsOf(r) : a.sentiment = NEGATIVE
    \/ f_trend[1].trend_type = VOLUME_SPIKE

Classified(r) == ClassificationsOf(r) # {}

\* C9 as stated: every returned record is in the pool and satisfies the
\* rule, and when at most 10 pool records satisfy the rule all of them are
\* returned.
C9_AsStated ==
    FilterCalled =>
        /\ \A r \in Range(FilterOutput) : r \in Range(f_feedback) /\ RuleHolds(r)
        /\ Cardinality({r \in Range(f_feedback) : RuleHolds(r)}) <= 10
             => \A r \in Range(f_feedback) : RuleHolds(r) => r \in Range(FilterOutput)

\* C9 (amended): every record the relevance filter returns belongs to the
\* pool, has a classification among the supplied analyses and satisfies the
\* relevance rule; when at most 10 classified records of the pool satisfy
\* the rule, every one of them is returned.
C9_FilterRelevant ==
    FilterCalled =>
        /\ \A r \in Range(FilterOutput) :
              r \in Range(f_feedback) /\ Classified(r) /\ RuleHolds(r)
        /\ Cardinality({r \in Range(f_feedback) : Classified(r) /\ RuleHolds(r)}) <= 10
             => \A r \in Range(f_feedback) :
                    (Classified(r) /\ RuleHolds(r)) => r \in Range(FilterOutput)

\* a sentiment-shift call that returned a record for its negative sentiment
\* alone and left a record of the pool out
C9_Witness ==
    /\ FilterCalled
    /\ f_trend[1].trend_type = SENTIMENT_SHIFT
    /\ \E r \in Range(FilterOutput) :
          \A a \in ClassificationsOf(r) :
              /\ a.sentiment = NEGATIVE
              /\ Range(a.topics) \cap Range(f_trend[1].primary_topics) = {}
    /\ \E r \in Range(f_feedback) : r \notin Range(FilterOutput)
    /\ Len(FilterOutput) \in 1..10

BatchReturned == g_pc = "returned"

\* the collaborator's answer for trend i, if it was called for it
AnswersFor(i) == {g_calls[k].response : k \in {j \in 1..Len(g_calls) : g_calls[j].trend = i}}

\* the pool holds evidence for trend i: a classified record that the
\* relevance rule selects
HasEvidence(i) ==
    \E r \in Range(g_feedback) :
        \E a \in {g_analyses[k] : k \in {j \in 1..Len(g_analyses) : g_analyses[j].feedback_id = r.id}} :
            \/ Range(a.topics) \cap Range(g_trends[i].primary_topics) # {}
            \/ g_trends[i].trend_type = SENTIMENT_SHIFT /\ a.sentiment = NEGATIVE
            \/ g_trends[i].trend_type = VOLUME_SPIKE

IsStrOfLen(v, lo, hi) == v.t = "str" /\ lo <= v.len /\ v.len <= hi

\* the optional fields of an answer are absent or of the requested type
OptionalFieldsWellTyped(a) ==
    /\ a.tags.t = "absent" \/ (a.tags.t = "list" /\ a.tags.strs)
    /\ a.estimated_effort.t \in {"absent", "null", "str"}
    /\ a.potential_impact.t \in {"absent", "null", "str"}

\* an answer of the expected structure: a JSON object with a title of
\* 10..200 characters and a description of at least 50
WellFormedAnswer(a) ==
    /\ a.kind = "json_object"
    /\ a.title.t = "str" /\ a.title.len \in 10..200
    /\ a.description.t = "str" /\ a.description.len >= 50
    /\ OptionalFieldsWellTyped(a)

\* trend i did not fail: it has evidence and the collaborator answered
\* with a well-formed result
Succeeded(i) == HasEvidence(i) /\ \E a \in AnswersFor(i) : WellFormedAnswer(a)

SucceededTrends == {i \in 1..Len(g_trends) : Succeeded(i)}

\* the k-th smallest element of a set of naturals
KthOf(S, k) == CHOOSE i \in S : Cardinality({j \in S : j < i}) = k - 1

\* C1: whichever trends of a batch fail (collaborator raises, malformed
\* output, no relevant evidence), every trend is processed and the returned
\* list holds exactly one proposal per succeeded trend, in trend order.
C1_BatchIndependence ==
    /\ g_pc \in {"idle", "loop", "returned"}
    /\ BatchReturned =>
        /\ Len(g_results) = Len(g_trends)
        /\ Len(g_goals) = Cardinality(SucceededTrends)
        /\ \A k \in 1..Len(g_goals) :
              /\ g_results[KthOf(SucceededTrends, k)].goal = Some(g_goals[k])
              /\ g_goals[k].source_trend = g_trends[KthOf(SucceededTrends, k)]
        /\ \A k, m \in 1..Len(g_goals) : k # m => g_goals[k].id # g_goals[m].id

\* a batch of 3 trends whose second failed (the collaborator raised) and
\* whose first and third gave the two returned proposals
C1_Witness ==
    /\ BatchReturned
    /\ Len(g_trends) = 3
    /\ AnswersFor(2) = {LLMRaises}
    /\ SucceededTrends = {1, 3}
    /\ Len(g_goals) = 2
    /\ g_goals[1].source_trend = g_trends[1]
    /\ g_goals[2].source_trend = g_trends[3]

\* the generation result is unparsable, lacks title or description, or
\* violates a length bound
RejectedAnswer(a) ==
    \/ a.kind \in {"not_json", "json_array"}
    \/ /\ a.kind = "json_object"
       /\ \/ a.title.t \in {"absent", "null"}
          \/ a.description.t \in {"absent", "null"}
          \/ a.title.t = "str" /\ (a.title.len < 10 \/ a.title.len > 200)
          \/ a.description.t = "str" /\ a.description.len < 50

\* C2: every GoalProposal returned by generate_single_goal or by the batch
\* has a title of 10..200 characters and a description of at least 50; an
\* unparsable result, a missing title or description, or a violated length
\* bound gives None for that trend.
C2_ValidatedProposals ==
    /\ \A k \in 1..Len(g_goals) :
          /\ IsStrOfLen(g_goals[k].title, 10, 200)
          /\ g_goals[k].description.t = "str" /\ g_goals[k].description.len >= 50
    /\ \A i \in 1..Len(g_results) :
          /\ g_results[i].outcome = "goal" =>
                /\ IsStrOfLen(g_results[i].goal[1].title, 10, 200)
                /\ g_results[i].goal[1].description.t = "str"
                /\ g_results[i].goal[1].description.len >= 50
          /\ (\E a \in AnswersFor(i) : RejectedAnswer(a)) =>
                (g_results[i].outcome = "none" /\ g_results[i].goal = None)

\* a returned batch holding a proposal with a 200 character title, after a
\* 201 character title gave None for another trend
C2_Witness ==
    /\ BatchReturned
    /\ \E k \in 1..Len(g_goals) : g_goals[k].title = JStr(200)
    /\ \E i \in 1..Len(g_results) :
          /\ \E a \in AnswersFor(i) : a.title = JStr(201)
          /\ g_results[i].outcome = "none"

\* C3: the length bounds are inclusive: with non-empty relevant evidence a
\* generation result (of the expected structure) with a title of exactly 10
\* and a description of exactly 50 characters yields a GoalProposal, and a
\* title shorter than 10 characters yields None.
C3_InclusiveBounds ==
    \A i \in 1..Len(g_results) : \A a \in AnswersFor(i) :
        /\ ( /\ g_results[i].relevant_ids # <<>>
             /\ a.kind = "json_object"
             /\ a.title = JStr(10) /\ a.description = JStr(50)
             /\ OptionalFieldsWellTyped(a) )
           => /\ g_results[i].outcome = "goal"
              /\ g_results[i].goal[1].title = JStr(10)
              /\ g_results[i].goal[1].description = JStr(50)
        /\ ( a.kind = "json_object" /\ a.title.t = "str" /\ a.title.len < 10 )
           => g_results[i].goal = None /\ g_results[i].outcome = "none"

\* one trend answered with a 10/50 character result became a proposal and
\* another answered with a 5 character title gave None
C3_Witness ==
    /\ \E i \in 1..Len(g_results) :
          /\ \E a \in AnswersFor(i) : a.title = JStr(10) /\ a.description = JStr(50)
          /\ g_results[i].outcome = "goal"
          /\ g_results[i].relevant_ids # <<>>
    /\ \E i \in 1..Len(g_results) :
          /\ \E a \in AnswersFor(i) : a.title = JStr(5)
          /\ g_results[i].goal = None

(***************************************************************************)
(* Claims about detect_significant_trends                                  *)
(***************************************************************************)
DetectReturned == d_pc = "returned"

\* the candidates of the four detectors in detector order: sentiment-shift,
\* topic-cluster, volume-spike, recurring-issue, each in emission order
Candidates == d_sentiment \o d_topic \o d_volume \o d_recurring

Occurrences(seq, x) == Cardinality({k \in 1..Len(seq) : seq[k] = x})

AtLeastThreshold(t) == 10 * t.severity_score.n >= 6 * t.severity_score.d

\* C6: the returned list holds exactly the candidates of the four
\* detectors whose severity is >= 0.6: none below 0.6 is returned, none at
\* or above 0.6 is missing.
C6_SignificanceCut ==
    DetectReturned =>
        /\ \A k \in 1..Len(d_result) : AtLeastThreshold(d_result[k])
        /\ \A k \in 1..Len(d_result) :
              Occurrences(d_result, d_result[k]) = Occurrences(Candidates, d_result[k])
        /\ \A k \in 1..Len(Candidates) :
              AtLeastThreshold(Candidates[k])
                 => Occurrences(d_result, Candidates[k]) = Occurrences(Candidates, Candidates[k])

\* a call where one candidate sits exactly on 0.6 and is returned while a
\* candidate below 0.6 is dropped
C6_Witness ==
    /\ DetectReturned
    /\ \E k \in 1..Len(d_result) : d_result[k].severity_score = Rat(6, 10)
    /\ \E k \in 1..Len(Candidates) : ~AtLeastThreshold(Candidates[k])

SeverityEqual(a, b) == a.severity_score.n * b.severity_score.d
                         = b.severity_score.n * a.severity_score.d
SeverityGreater(a, b) == a.severity_score.n * b.severity_score.d
                           > b.severity_score.n * a.severity_score.d

\* the place of a returned trend among the candidates
CandidateIndex(t) == CHOOSE k \in 1..Len(Candidates) : Candidates[k] = t

\* C7: the returned list is ordered by severity, highest first, and trends
\* of equal severity keep the detector order (sentiment-shift, topic-cluster,
\* volume-spike, recurring-issue; emission order within a detector).
C7_SeverityOrder ==
    DetectReturned =>
        \A i, j \in 1..Len(d_result) :
            i < j =>
               \/ SeverityGreater(d_result[i], d_result[j])
               \/ /\ SeverityEqual(d_result[i], d_result[j])
                  /\ CandidateIndex(d_result[i]) < CandidateIndex(d_result[j])

\* a call returning a sentiment-shift and a recurring-issue of the same
\* severity, and below them a trend of lower severity
C7_Witness ==
    /\ DetectReturned
    /\ \E i, j \in 1..Len(d_result) :
          /\ i < j
          /\ d_result[i].trend_type = SENTIMENT_SHIFT
          /\ d_result[j].trend_type = RECURRING_ISSUE
          /\ SeverityEqual(d_result[i], d_result[j])
    /\ \E i, j \in 1..Len(d_result) : SeverityGreater(d_result[i], d_result[j])

\* C8: with fewer than 3 daily aggregates the sentiment-shift and the
\* volume-spike detector produce nothing, with fewer than 5 the
\* recurring-issue detector produces nothing, whatever the counts and the
\* feedback records; the call still returns.
C8_MinimumWindow ==
    /\ (d_pc # "idle" /\ Len(d_summaries) < 3) => DetectReturned
    /\ DetectReturned =>
        /\ Len(d_summaries) < 3 => (d_sentiment = <<>> /\ d_volume = <<>>)
        /\ Len(d_summaries) < 5 => d_recurring = <<>>

\* a 4 day window with negative feedback on every day: the sentiment-shift
\* detector fires, the recurring-issue detector stays silent
C8_Witness ==
    /\ DetectReturned
    /\ Len(d_summaries) = 4
    /\ \A k \in 1..4 : d_summaries[k].sentiment_breakdown[NEGATIVE] > 0
    /\ d_sentiment # <<>>
    /\ d_recurring = <<>>

(***************************************************************************)
(* Claims about the relevance filter for volume-spike trends               *)
(***************************************************************************)
VolumeSpikeCall == FilterCalled /\ f_trend[1].trend_type = VOLUME_SPIKE

\* `out` is the `n` most recent records of the set S, newest first
MostRecentOf(out, S, n) ==
    /\ Len(out) = n
    /\ Range(out) \subseteq S
    /\ Cardinality(Range(out)) = Len(out)
    /\ \A k \in 1..(Len(out) - 1) : out[k].timestamp >= out[k + 1].timestamp
    /\ \A r \in S \ Range(out) : \A q \in Range(out) : r.timestamp <= q.timestamp

\* C11 as stated: for a volume-spike trend the filter returns the
\* min(10, pool size) most recent records of the whole pool.
C11_AsStated ==
    VolumeSpikeCall =>
        MostRecentOf(FilterOutput, Range(f_feedback), Min(10, Len(f_feedback)))

\* C11 (amended): for a volume-spike trend the filter returns the
\* min(10, number of classified records) most recent records among the pool
\* records that have a classification, whatever their topics and sentiment.
C11_VolumeSpikeClassified ==
    VolumeSpikeCall =>
        LET classified == {r \in Range(f_feedback) : Classified(r)}
        IN  MostRecentOf(FilterOutput, classified, Min(10, Cardinality(classified)))

\* a volume-spike call over 11 classified records of differing timestamps:
\* 10 are returned, among them records sharing no topic with the trend and
\* records that are not negative
C11_Witness ==
    /\ VolumeSpikeCall
    /\ Len(f_feedback) = 11
    /\ \A r \in Range(f_feedback) : Classified(r)
    /\ Len(FilterOutput) = 10
    /\ FilterOutput[1].timestamp > FilterOutput[10].timestamp
    /\ \E r \in Range(FilterOutput) :
          \A a \in ClassificationsOf(r) :
              /\ Range(a.topics) \cap Range(f_trend[1].primary_topics) = {}
              /\ a.sentiment # NEGATIVE

(***************************************************************************)
(* Claims about repeating the relevance filter                             *)
(***************************************************************************)
FilteredTwice == f_again # None

NoEvidence(i) == _filter_relevant_feedback(g_trends[i], g_feedback, g_analyses) = <<>>

\* C13: for a trend for which the relevance filter selects zero records,
\* generate_single_goal returns None, raises nothing, and the generation
\* collaborator is not called for that trend.
C13_NoEvidenceNoCall ==
    \A i \in 1..Len(g_results) :
        NoEvidence(i) =>
            /\ g_results[i].outcome = "none"
            /\ g_results[i].goal = None
            /\ ~g_results[i].llm_called
            /\ AnswersFor(i) = {}

\* a returned batch over a non-empty pool in which one trend had no
\* evidence and another one was sent to the collaborator
C13_Witness ==
    /\ BatchReturned
    /\ g_feedback # <<>>
    /\ \E i, j \in 1..Len(g_results) :
          /\ NoEvidence(i)
          /\ ~NoEvidence(j)
          /\ g_results[j].llm_called

(***************************************************************************)
(* Claims about the sentiment-shift detector                               *)
(***************************************************************************)
RecentDays     == SubSeq(d_summaries, Len(d_summaries) - 1, Len(d_summaries))
HistoricalDays == SubSeq(d_summaries, 1, Len(d_summaries) - 2)

RECURSIVE NegativeSum(_)
NegativeSum(days) ==
    IF days = <<>> THEN 0
    ELSE days[1].sentiment_breakdown[NEGATIVE] + NegativeSum(Tail(days))

RECURSIVE TotalSum(_)
TotalSum(days) ==
    IF days = <<>> THEN 0 ELSE days[1].total_feedback_items + TotalSum(Tail(days))

\* both ratios exist and the recent one exceeds the historical one by more
\* than 0.2: rn/rt > hn/ht + 1/5, cleared of denominators
RatioExceeds ==
    /\ Len(d_summaries) >= 3
    /\ TotalSum(RecentDays) > 0
    /\ TotalSum(HistoricalDays) > 0
    /\ 5 * NegativeSum(RecentDays) * TotalSum(HistoricalDays)
         > 5 * NegativeSum(HistoricalDays) * TotalSum(RecentDays)
             + TotalSum(RecentDays) * TotalSum(HistoricalDays)

ShiftPremise == RatioExceeds /\ NegativeSum(RecentDays) >= 5

\* recent_ratio - historical_ratio
RatioShift ==
    Rat(NegativeSum(RecentDays) * TotalSum(HistoricalDays)
            - NegativeSum(HistoricalDays) * TotalSum(RecentDays),
        TotalSum(RecentDays) * TotalSum(HistoricalDays))

\* one candidate with the stated confidence and severity
OneShiftCandidate ==
    /\ Len(d_sentiment) = 1
    /\ d_sentiment[1].trend_type = SENTIMENT_SHIFT
    /\ d_sentiment[1].confidence = RMin(Rat(9, 10), RMul(Rat(3, 1), RatioShift))
    /\ d_sentiment[1].severity_score
         = RMin(Rat(1, 1), RAdd(RMul(Rat(2, 1), RatioShift),
                                Rat(NegativeSum(RecentDays), 20)))

\* some feedback record of the call has a negative classification
NegativeEvidence ==
    \E i \in 1..Len(d_feedback) : \E k \in 1..Len(d_analyses) :
        d_analyses[k].feedback_id = d_feedback[i].id /\ d_analyses[k].sentiment = NEGATIVE

\* C19 as stated: every window of at least 3 days whose recent negative
\* ratio exceeds the historical one by more than 0.2, with at least 5 recent
\* negatives, yields exactly one candidate with the stated scores.
C19_AsStated ==
    (DetectReturned /\ ShiftPremise) => OneShiftCandidate

\* C19 (amended): such a window yields exactly one candidate with the
\* stated confidence and severity provided at least one feedback record of
\* the call has a negative classification among the analyses; without such
\* a record the detector yields nothing.
C19_SentimentShiftFires ==
    (DetectReturned /\ ShiftPremise) =>
        IF NegativeEvidence THEN OneShiftCandidate ELSE d_sentiment = <<>>

\* the example: historical 10/100, recent 10/20 over 2 days, giving
\* confidence 0.9 and severity 1.0
C19_Witness ==
    /\ DetectReturned
    /\ NegativeSum(HistoricalDays) = 10 /\ TotalSum(HistoricalDays) = 100
    /\ NegativeSum(RecentDays) = 10 /\ TotalSum(RecentDays) = 20
    /\ Len(d_sentiment) = 1
    /\ d_sentiment[1].confidence = Rat(9, 10)
    /\ d_sentiment[1].severity_score = Rat(1, 1)

DetectRaised == d_pc = "raised"

\* the significant candidates of the detectors that did not raise, by
\* severity, ties in detector order
RECURSIVE InsertBySeverity(_, _)
InsertBySeverity(sorted, t) ==
    IF sorted = <<>> THEN <<t>>
    ELSE IF SeverityGreater(t, sorted[1]) THEN <<t>> \o sorted
    ELSE <<sorted[1]>> \o InsertBySeverity(Tail(sorted), t)

RECURSIVE BySeverity(_)
BySeverity(trends) ==
    IF trends = <<>> THEN <<>>
    ELSE InsertBySeverity(BySeverity(SubSeq(trends, 1, Len(trends) - 1)),
                          trends[Len(trends)])

SurvivingCandidates ==
    BySeverity(SelectSeq(d_sentiment \o d_topic \o d_recurring, AtLeastThreshold))

\* C18: when a detector raises during detect_significant_trends the call
\* still returns, and returns the significant candidates of the other
\* detectors in severity order.
C18_DetectorIsolation ==
    d_pc # "idle" =>
        /\ DetectReturned
        /\ d_result = SelectSeq(d_result, AtLeastThreshold)
        /\ _detect_volume_spikes_raises(d_summaries, d_feedback)
              => d_result = SurvivingCandidates

(***************************************************************************)
(* Claims about the pipeline entry point                                   *)
(***************************************************************************)
AgentReturned == a_pc = "returned"

SaveFailed == a_success = Some(FALSE)

\* C14: when goal synthesis produced a non-empty list of proposals and the
\* save of the repository then fails, the entry point returns exactly the
\* synthesized proposals, unchanged and in the same order (and the table of
\* stored proposals holds none of them).
C14_SaveFailureKeepsResult ==
    (AgentReturned /\ a_goals # <<>> /\ SaveFailed) =>
        /\ a_result = Some(a_goals)
        /\ a_error = None

\* the save failed after a synthesis of at least one proposal, and the
\* caller has them
C14_Witness ==
    /\ AgentReturned
    /\ SaveFailed
    /\ a_goals # <<>>
    /\ a_result = Some(a_goals)
    /\ a_table = <<>>

IsProposal(g) ==
    /\ DOMAIN g = DOMAIN GoalProposal(1, GoodObject, 1, a_trends[1], <<>>)
    /\ \E i \in 1..Len(a_trends) : g.source_trend = a_trends[i]

\* C15: whatever fails (the getter of the summaries, the queries of the
\* window, a detector, a generation call, the save), the entry point
\* terminates by returning a list of proposals, a subsequence of at most one
\* proposal per detected trend, and no exception reaches the caller.
C15_NoFailureIsFatal ==
    AgentReturned =>
        /\ a_result # None
        /\ Len(a_result[1]) <= Len(a_trends)
        /\ \A k \in 1..Len(a_result[1]) : IsProposal(a_result[1][k])

\* an exception was raised inside the entry point and the caller got []
C15_Witness ==
    /\ AgentReturned
    /\ a_error # None
    /\ a_result = Some(<<>>)


\* the store holds seven daily aggregates, the last two of which carry the
\* sentiment shift, and the pool holds a negative record as evidence
ShiftStored ==
    /\ a_stored_summaries = ByAge(ShiftWeek, 1)
    /\ a_stored_feedback = EvidencePool.feedback
    /\ a_stored_analyses = EvidencePool.analyses

\* no collaborator was made to fail: the storage object is not one whose
\* getter raises, the queries of the window answered what is stored and
\* every generation call answered a valid object
NothingFailed ==
    /\ a_getter # "fails"
    /\ a_summaries # <<>> =>
          /\ a_feedback = get_feedback_items_by_date_range(a_stored_feedback, a_days)
          /\ a_analyses = get_analyses_by_date_range(a_stored_analyses, a_days)
    /\ \A k \in 1..Len(a_calls) : a_calls[k].response = GoodObject

\* C16: end to end, with seven stored daily aggregates carrying a sentiment
\* shift and no other significant trend, matching evidence in the pool and
\* a valid answer of the generation call, the entry point called with a
\* window of 7 days returns exactly one proposal, whose source trend is the
\* sentiment shift and whose priority is the priority calculator's value.
C16_EndToEnd ==
    (AgentReturned /\ a_days = 7 /\ ShiftStored /\ NothingFailed) =>
        /\ a_result # None
        /\ Len(a_result[1]) = 1
        /\ a_result[1][1].source_trend.trend_type = SENTIMENT_SHIFT
        /\ a_result[1][1].priority = _calculate_priority(a_result[1][1].source_trend)

\* C17: every proposal the synthesizer creates has status pending and keeps
\* it through the save and the return of the entry point; a stored proposal
\* has another status only after update_goal_proposal_status was called for
\* it.
C17_StatusPending ==
    /\ \A k \in 1..Len(a_goals) : a_goals[k].status = PENDING
    /\ a_result # None => \A k \in 1..Len(a_result[1]) : a_result[1][k].status = PENDING
    /\ \A k \in 1..Len(a_table) :
          /\ a_table[k].id \notin a_updates => a_table[k].status = PENDING
          /\ \E j \in 1..Len(a_goals) : a_goals[j].id = a_table[k].id

\* two proposals were stored and returned, the status of one was then
\* updated through the repository and the other is still pending
C17_Witness ==
    /\ AgentReturned
    /\ a_success = Some(TRUE)
    /\ Len(a_table) = 2
    /\ a_result = Some(a_goals)
    /\ \E k \in 1..2 : a_table[k].status = "approved" /\ a_table[k].id \in a_updates
    /\ \E k \in 1..2 : a_table[k].status = PENDING /\ a_table[k].id \notin a_updates

(***************************************************************************)
(* Claims about the single detectors                                       *)
(***************************************************************************)
ClustersCalled == d_pc = "clustered"

\* occurrences of the topic in the topic lists of the window's analyses
TopicCount(topic) ==
    Cardinality({kj \in (1..Len(d_analyses)) \X (1..2) :
                    /\ kj[2] <= Len(d_analyses[kj[1]].topics)
                    /\ d_analyses[kj[1]].topics[kj[2]] = topic})

TopicNegatives(topic) ==
    Cardinality({k \in 1..Len(d_analyses) :
                    /\ topic \in Range(d_analyses[k].topics)
                    /\ d_analyses[k].sentiment = NEGATIVE})

\* 1000 x count x severity, with severity =
\* 0.6 x min(1, count/20) + 0.4 x negative ratio (x 0.8 for general)
ClusterSeverityScaled(topic) ==
    30 * Min(20, TopicCount(topic)) * TopicCount(topic)
        + 40 * TopicNegatives(topic) * (IF topic = GENERAL THEN 8 ELSE 10)

ClusterQualifies(topic) ==
    /\ TopicCount(topic) >= 5
    /\ 100 * TopicCount(topic) >= 15 * Len(d_analyses)
    /\ ClusterSeverityScaled(topic) >= 500 * TopicCount(topic)

ClusterCandidates(topic) ==
    {k \in 1..Len(d_topic) : d_topic[k].primary_topics = <<topic>>}

\* C21: the topic-cluster detector emits a candidate for a topic exactly
\* when the topic occurs at least 5 times, in at least 15% of the records,
\* and 0.6 x min(1, count/20) + 0.4 x sentiment_score is at least 0.5, the
\* sentiment score being the negative ratio (x 0.8 for general); the
\* candidate has that severity, affected count = count and confidence
\* min(0.95, min(1, count/20) + 0.3), and there is one candidate per topic.
C21_TopicCluster ==
    ClustersCalled =>
        /\ \A k \in 1..Len(d_topic) :
              /\ d_topic[k].trend_type = TOPIC_CLUSTER
              /\ Len(d_topic[k].primary_topics) = 1
        /\ \A topic \in TopicTag :
              /\ ClusterQualifies(topic) <=> ClusterCandidates(topic) # {}
              /\ Cardinality(ClusterCandidates(topic)) <= 1
              /\ \A k \in ClusterCandidates(topic) :
                    /\ d_topic[k].affected_feedback_count = TopicCount(topic)
                    /\ d_topic[k].severity_score =
                          Rat(ClusterSeverityScaled(topic), 1000 * TopicCount(topic))
                    /\ d_topic[k].confidence =
                          RMin(Rat(95, 100), Rat(Min(20, TopicCount(topic)) + 6, 20))

\* general occurs 6 times in 30 records, never negatively (severity 0.18),
\* and has no candidate, while the 24 feature requests have one
C21_Witness ==
    /\ ClustersCalled
    /\ Len(d_analyses) = 30
    /\ TopicCount(GENERAL) = 6
    /\ TopicNegatives(GENERAL) = 0
    /\ ClusterCandidates(GENERAL) = {}
    /\ ClusterCandidates(FEATURE_REQUEST) # {}

VolumeTotal == SumOver(d_summaries, TotalOf)

RecentVolume == d_summaries[Len(d_summaries)].total_feedback_items

\* the most recent day's total exceeds twice the mean of the window and is
\* at least 10
SpikePremise ==
    /\ RecentVolume * Len(d_summaries) > 2 * VolumeTotal
    /\ RecentVolume >= 10

\* C22: on a window of at least 3 daily aggregates the volume-spike
\* detector, whenever it returns, fires exactly when the most recent day's
\* total is strictly greater than twice the mean total of the whole window
\* and at least 10; the one candidate has severity
\* min(1, (recent_volume / avg_volume) / 5), confidence 0.9, affected count
\* recent_volume, primary topics [general] and all recent_volume records
\* counted as neutral.
C22_VolumeSpike ==
    (DetectReturned /\ Len(d_summaries) >= 3) =>
        IF SpikePremise
        THEN /\ Len(d_volume) = 1
             /\ d_volume[1].trend_type = VOLUME_SPIKE
             /\ d_volume[1].severity_score =
                   RMin(Rat(1, 1), Rat(RecentVolume * Len(d_summaries), 5 * VolumeTotal))
             /\ d_volume[1].confidence = Rat(9, 10)
             /\ d_volume[1].affected_feedback_count = RecentVolume
             /\ d_volume[1].primary_topics = <<GENERAL>>
             /\ d_volume[1].sentiment_distribution =
                   [s \in SentimentType |-> IF s = NEUTRAL THEN RecentVolume ELSE 0]
        ELSE d_volume = <<>>

\* a spike of less than five times the mean: severity below 1
C22_Witness ==
    /\ DetectReturned
    /\ Len(d_summaries) >= 3
    /\ SpikePremise
    /\ Len(d_volume) = 1
    /\ RGt(Rat(1, 1), d_volume[1].severity_score)

\* the proportional share of a day's negative records that falls to a topic
NegativeShare(summary, topic) ==
    IF summary.topic_breakdown[topic] > 0
    THEN Rat(summary.topic_breakdown[topic] * NegativeOf(summary), TopicMentions(summary))
    ELSE Rat(0, 1)

\* the integer the detector keeps of it: truncated and capped at the count
NegativeShareKept(summary, topic) ==
    IF summary.topic_breakdown[topic] > 0
    THEN Min(summary.topic_breakdown[topic],
             (summary.topic_breakdown[topic] * NegativeOf(summary))
                 \div TopicMentions(summary))
    ELSE 0

RECURSIVE ShareSum(_, _)
ShareSum(topic, d) ==
    IF d = 0 THEN Rat(0, 1)
    ELSE RAdd(ShareSum(topic, d - 1), NegativeShare(d_summaries[d], topic))

SharePresentDays(topic) ==
    Cardinality({d \in 1..Len(d_summaries) :
                    RGt(NegativeShare(d_summaries[d], topic), Rat(0, 1))})

KeptSum(topic) == SumOver(d_summaries, LAMBDA sm : NegativeShareKept(sm, topic))

KeptPresentDays(topic) ==
    Cardinality({d \in 1..Len(d_summaries) : NegativeShareKept(d_summaries[d], topic) > 0})

RecurringCandidates(topic) ==
    {k \in 1..Len(d_recurring) : d_recurring[k].primary_topics = <<topic>>}

\* 0.7 x (days / window length) + 0.3 x min(1, sum / 10)
RecurringSeverity(days, sum) ==
    RAdd(RMul(Rat(7, 10), Rat(days, Len(d_summaries))),
         RMul(Rat(3, 10), RMin(Rat(1, 1), sum)))

ProcessedTrends == 1..Len(g_results)

\* C24: during a batch the generation collaborator is called in trend
\* order, at most once per trend, never again for a trend whose call raised
\* or answered invalid content, and exactly for the processed trends that
\* have relevant evidence; after a run over N trends there are at most N
\* calls.
C24_SequentialCalls ==
    /\ \A k, j \in 1..Len(g_calls) : k < j => g_calls[k].trend < g_calls[j].trend
    /\ {g_calls[k].trend : k \in 1..Len(g_calls)} = {i \in ProcessedTrends : HasEvidence(i)}
    /\ Len(g_calls) = Cardinality({i \in ProcessedTrends : HasEvidence(i)})
    /\ Len(g_calls) <= Len(g_trends)

\* a returned batch of the largest size in which a call raised, the next
\* call was made all the same, and one trend had no evidence and no call
C24_Witness ==
    /\ BatchReturned
    /\ Len(g_trends) = MaxTrends
    /\ \E k, j \in 1..Len(g_calls) :
          /\ k < j
          /\ g_calls[k].response = LLMRaises
          /\ WellFormedAnswer(g_calls[j].response)
    /\ Len(g_calls) < Len(g_trends)

\* C25: generate_single_goal is total: whatever the generation collaborator
\* answers, the call returns a validated GoalProposal or None and no
\* exception leaves it; a proposal built from an answer without the
\* optional fields has empty tags and no effort or impact.
C25_SingleGoalTotal ==
    \A i \in 1..Len(g_results) :
        /\ g_results[i].outcome \in {"goal", "none"}
        /\ g_results[i].outcome = "goal" =>
              /\ g_results[i].goal # None
              /\ IsStrOfLen(g_results[i].goal[1].title, 10, 200)
              /\ g_results[i].goal[1].description.t = "str"
              /\ g_results[i].goal[1].description.len >= 50
              /\ \A a \in AnswersFor(i) :
                    /\ a.tags = JAbsent => g_results[i].goal[1].tags = JStrList(0)
                    /\ a.estimated_effort = JAbsent =>
                          g_results[i].goal[1].estimated_effort = JNull
                    /\ a.potential_impact = JAbsent =>
                          g_results[i].goal[1].potential_impact = JNull
        /\ g_results[i].outcome = "none" => g_results[i].goal = None

PoolTimestamp(id) ==
    (CHOOSE r \in Range(g_feedback) : r.id = id).timestamp

\* C26: the supporting-feedback-ids of every constructed proposal are the
\* ids of the records the relevance filter selects for its trend, in the
\* filter's order (most recent first): a non-empty list of at most 10 ids
\* of pool records; its source trend is the input trend.
C26_SupportingIds ==
    \A i \in 1..Len(g_results) :
        g_results[i].outcome = "goal" =>
            LET goal     == g_results[i].goal[1]
                ids      == goal.supporting_feedback_ids
                selected == _filter_relevant_feedback(g_trends[i], g_feedback, g_analyses)
            IN  /\ ids = [k \in 1..Len(selected) |-> selected[k].id]
                /\ Len(ids) >= 1
                /\ Len(ids) <= 10
                /\ \A k \in 1..Len(ids) : \E r \in Range(g_feedback) : r.id = ids[k]
                /\ \A k \in 1..(Len(ids) - 1) :
                      PoolTimestamp(ids[k]) >= PoolTimestamp(ids[k + 1])
                /\ goal.source_trend = g_trends[i]

\* a proposal for a volume spike over the pool of MaxPool records: 10 ids,
\* the first more recent than the last
C26_Witness ==
    \E i \in 1..Len(g_results) :
        /\ g_results[i].outcome = "goal"
        /\ Len(g_feedback) > 10
        /\ Len(g_results[i].goal[1].supporting_feedback_ids) = 10
        /\ PoolTimestamp(g_results[i].goal[1].supporting_feedback_ids[1])
              > PoolTimestamp(g_results[i].goal[1].supporting_feedback_ids[10])

(***************************************************************************)
(* Claims about the detectors and the significance cut together            *)
(***************************************************************************)
ShiftsInResult == {k \in 1..Len(d_result) : d_result[k].trend_type = SENTIMENT_SHIFT}

\* C27: every sentiment-shift trend that detect_significant_trends returns
\* gets priority at least 4 from the priority calculator: its severity is
\* at least 0.6 and its affected count at least 5.
C27_ShiftPriority ==
    DetectReturned =>
        \A k \in ShiftsInResult :
            /\ _calculate_priority(d_result[k]) >= 4
            /\ RGe(d_result[k].severity_score, Rat(6, 10))
            /\ d_result[k].affected_feedback_count >= 5

\* a returned sentiment shift of severity below 0.8 on fewer than 20
\* records and without a bug or performance topic: priority exactly 4
C27_Witness ==
    /\ DetectReturned
    /\ \E k \in ShiftsInResult :
          /\ _calculate_priority(d_result[k]) = 4
          /\ RGt(Rat(8, 10), d_result[k].severity_score)
          /\ d_result[k].affected_feedback_count < 20
          /\ ~HasHighPriorityTopic(d_result[k])

SpikesInResult == {k \in 1..Len(d_result) : d_result[k].trend_type = VOLUME_SPIKE}

\* the most recent day's total is at least three times the window's mean
TripleAverage == RecentVolume * Len(d_summaries) >= 3 * VolumeTotal

NoNegativeTotal ==
    \A k \in 1..Len(d_summaries) : d_summaries[k].total_feedback_items >= 0

\* C28: whenever detection returns on a window of at least 3 daily
\* aggregates, the result holds a volume spike exactly when the most recent
\* day's total is at least 3 times the window's mean and at least 10; a
\* spike of more than 2 and less than 3 times the mean is produced by the
\* detector and removed by the 0.6 cut; and on a window of exactly 3 days of
\* non-negative totals a spike is in the result only when both earlier days
\* have total 0.
C28_SpikeSurvives ==
    (DetectReturned /\ Len(d_summaries) >= 3) =>
        /\ (SpikesInResult # {}) <=> (TripleAverage /\ RecentVolume >= 10)
        /\ (SpikePremise /\ ~TripleAverage) =>
               (Len(d_volume) = 1 /\ SpikesInResult = {})
        /\ (Len(d_summaries) = 3 /\ NoNegativeTotal /\ SpikesInResult # {}) =>
               /\ d_summaries[1].total_feedback_items = 0
               /\ d_summaries[2].total_feedback_items = 0

\* three days, the first two empty: the spike is exactly 3 times the mean,
\* has severity 0.6 and is in the result
C28_Witness ==
    /\ DetectReturned
    /\ Len(d_summaries) = 3
    /\ RecentVolume * 3 = 3 * VolumeTotal
    /\ RecentVolume >= 10
    /\ \E k \in SpikesInResult : d_result[k].severity_score = Rat(6, 10)

\* a spike of more than 2 and less than 3 times the mean was produced and
\* is not in the result
C28_Removed ==
    /\ DetectReturned
    /\ Len(d_summaries) >= 3
    /\ SpikePremise
    /\ ~TripleAverage
    /\ Len(d_volume) = 1
    /\ SpikesInResult = {}

DetectCalled == d_pc \in {"returned", "raised"}

RecentSliceTotal ==
    SumOver(SubSeq(d_summaries, Len(d_summaries) - 1, Len(d_summaries)), TotalOf)

HistoricalSliceTotal ==
    SumOver(SubSeq(d_summaries, 1, Len(d_summaries) - 2), TotalOf)

RecentSliceNegative ==
    SumOver(SubSeq(d_summaries, Len(d_summaries) - 1, Len(d_summaries)), NegativeOf)

\* C29: on every window of at least 3 daily aggregates whose last two days
\* or whose earlier days have total feedback count 0, the sentiment-shift
\* detector does not raise and returns no candidate.
C29_NoDivisionByZero ==
    (/\ DetectCalled
     /\ Len(d_summaries) >= 3
     /\ (RecentSliceTotal = 0 \/ HistoricalSliceTotal = 0)) =>
        /\ ~_detect_sentiment_shifts_raises(d_summaries, d_feedback, d_analyses)
        /\ d_sentiment = <<>>

\* the earlier days are empty and the last two days hold at least 5
\* negative records, with negative analyses at hand: detection returned
C29_Witness ==
    /\ DetectReturned
    /\ Len(d_summaries) >= 3
    /\ HistoricalSliceTotal = 0
    /\ RecentSliceTotal > 0
    /\ RecentSliceNegative >= 5
    /\ \E k \in 1..Len(d_analyses) : d_analyses[k].sentiment = NEGATIVE
    /\ d_sentiment = <<>>

(***************************************************************************)
(* Claims about the goal_proposals repository                              *)
(***************************************************************************)
\* the proposal read back carries the fields of the proposal stored
SameProposal(read, stored) ==
    /\ read.id = stored.id
    /\ read.title = stored.title
    /\ read.description = stored.description
    /\ read.status = stored.status
    /\ read.priority = stored.priority
    /\ read.source_trend = stored.source_trend
    /\ read.supporting_feedback_ids = stored.supporting_feedback_ids
    /\ read.tags = stored.tags

SavedIds == {s_table[k].id : k \in 1..Len(s_table)}

\* C30: after store_goal_proposals has saved the proposals of the goal
\* service, get_goal_proposal_by_id for a saved id and get_goal_proposals
\* return without raising, and what they return carries the id, title,
\* description, status, priority, source trend, supporting-feedback-ids and
\* tags of every saved proposal.
C30_RoundTrip ==
    \A k \in 1..Len(s_read) :
        LET call == s_read[k]
        IN  /\ (call.method = "get_goal_proposal_by_id" /\ call.id \in SavedIds) =>
                /\ call.result.outcome = "return"
                /\ call.result.value # None
                /\ \E j \in 1..Len(s_goals) : SameProposal(call.result.value[1], s_goals[j])
            /\ call.method = "get_goal_proposals" =>
                /\ call.result.outcome = "return"
                /\ \A id \in SavedIds :
                      \E i \in 1..Len(call.result.value[1]), j \in 1..Len(s_goals) :
                          /\ call.result.value[1][i].id = id
                          /\ SameProposal(call.result.value[1][i], s_goals[j])
=============================================================================
